---------------------------- MODULE Spec2Model ----------------------------
(***************************************************************************)
(* Model of the resume/offer analysis pipeline (hongjian03/cvtiqu):        *)
(*   - LLMProcessor._parse_content_to_json / _extract_json_from_text       *)
(*     (src/llm_processor.py), the recovery of JSON from raw LLM content;  *)
(*   - LLMProcessor.process_documents / _call_llm_async, the concurrent    *)
(*     fan-out/fan-in of one resume call and N offer calls, and the        *)
(*     assembly of the record in main_page (src/streamlit.py);             *)
(*   - enrich_school_rankings (src/test_llm.py).                           *)
(*                                                                         *)
(* A text is a sequence of tokens.  Every token is a piece of real text    *)
(* that the operations of the code (find, rfind, split, strip, startswith, *)
(* endswith, the two regular expressions, json.loads) never cut in two.    *)
(***************************************************************************)
EXTENDS Integers, Sequences, FiniteSets, TLC

\* ------------------------------------------------------------------------
\* Tokens
\* ------------------------------------------------------------------------
LB == "{"
RB == "}"
KA == "a:"              \* the key a with its quotes and colon (4 characters)
KB == "b:"              \* the key b with its quotes and colon (4 characters)
N1 == "1"               \* a digit
CM == ","
SP == " "
NL == "LF"              \* a line feed (1 character)
FN == "FENCE"           \* a code fence: three backticks
JS == "json"            \* the word json
XX == "x"               \* a letter of prose
DQ == "QUOTE"           \* a double quote

Keys == {KA, KB}
Ws == {SP, NL}

\* len() of a token in characters (used by the sort of the brace candidates)
TokLen(t) == IF t \in Keys THEN 4 ELSE IF t = JS THEN 4 ELSE IF t = FN THEN 3 ELSE 1

RECURSIVE CharLen(_)
CharLen(s) == IF s = <<>> THEN 0 ELSE TokLen(Head(s)) + CharLen(Tail(s))

\* s[i..j], empty when j < i   (Python s[i-1:j])
Slice(s, i, j) == IF j < i THEN <<>> ELSE SubSeq(s, i, j)

\* ------------------------------------------------------------------------
\* json.loads on a str: values are trees
\*   [t |-> "num", n |-> digits, m |-> {}]
\*   [t |-> "str", n |-> content length, m |-> {<<i, token>>}]
\*   [t |-> "obj", n |-> 0, m |-> {<<key, value>>}]
\* ------------------------------------------------------------------------
Num(k) == [t |-> "num", n |-> k, m |-> {}]
Str(s) == [t |-> "str", n |-> Len(s), m |-> {<<i, s[i]>> : i \in 1..Len(s)}]
Obj(members) == [t |-> "obj", n |-> 0, m |-> members]
EmptyObj == Obj({})

NoParse == [ok |-> FALSE, val |-> Num(0), nxt |-> 0]

\* index of the first token at or after i that is not whitespace (Len+1 if none)
RECURSIVE SkipWs(_, _)
SkipWs(s, i) == IF i <= Len(s) /\ s[i] \in Ws THEN SkipWs(s, i + 1) ELSE i

\* index after the run of digits that starts at i
RECURSIVE DigitsEnd(_, _)
DigitsEnd(s, i) == IF i <= Len(s) /\ s[i] = N1 THEN DigitsEnd(s, i + 1) ELSE i

\* index of the quote closing a string whose content starts at i; 0 if the
\* string is unterminated, holds a raw line feed (a control character), or
\* is closed by the first quote of a key token (what follows is then junk)
RECURSIVE StringEnd(_, _)
StringEnd(s, i) ==
    IF i > Len(s) THEN 0
    ELSE IF s[i] = DQ THEN i
    ELSE IF s[i] = NL \/ s[i] \in Keys THEN 0
    ELSE StringEnd(s, i + 1)

KeyName(k) == IF k = KA THEN "a" ELSE "b"

RECURSIVE ParseValue(_, _), ParseMembers(_, _, _)
\* the value starting at index i: [ok, val, nxt]
ParseValue(s, i) ==
    IF i > Len(s) THEN NoParse
    ELSE IF s[i] = N1 THEN
        LET j == DigitsEnd(s, i) IN [ok |-> TRUE, val |-> Num(j - i), nxt |-> j]
    ELSE IF s[i] = DQ THEN
        LET j == StringEnd(s, i + 1) IN
        IF j = 0 THEN NoParse
        ELSE [ok |-> TRUE, val |-> Str(Slice(s, i + 1, j - 1)), nxt |-> j + 1]
    ELSE IF s[i] = LB THEN
        LET j == SkipWs(s, i + 1) IN
        IF j <= Len(s) /\ s[j] = RB
        THEN [ok |-> TRUE, val |-> EmptyObj, nxt |-> j + 1]
        ELSE ParseMembers(s, j, {})
    ELSE NoParse

\* the members of an object from the key at index i on; a repeated key keeps
\* its last value
ParseMembers(s, i, acc) ==
    IF i > Len(s) \/ s[i] \notin Keys THEN NoParse
    ELSE
        LET v == ParseValue(s, SkipWs(s, i + 1)) IN
        IF ~v.ok THEN NoParse
        ELSE
            LET acc2 == {p \in acc : p[1] # KeyName(s[i])} \cup {<<KeyName(s[i]), v.val>>}
                j == SkipWs(s, v.nxt)
            IN  IF j > Len(s) THEN NoParse
                ELSE IF s[j] = RB THEN [ok |-> TRUE, val |-> Obj(acc2), nxt |-> j + 1]
                ELSE IF s[j] = CM THEN ParseMembers(s, SkipWs(s, j + 1), acc2)
                ELSE NoParse

\* json.loads(s) for a str s: [ok |-> parsed, val |-> the value]
json_loads(s) ==
    LET v == ParseValue(s, SkipWs(s, 1)) IN
    IF v.ok /\ SkipWs(s, v.nxt) > Len(s)
    THEN [ok |-> TRUE, val |-> v.val]
    ELSE [ok |-> FALSE, val |-> Num(0)]

\* str.strip()
RECURSIVE RStrip(_)
RStrip(s) == IF s # <<>> /\ s[Len(s)] \in Ws THEN RStrip(SubSeq(s, 1, Len(s) - 1)) ELSE s
strip(s) == LET r == RStrip(s) IN Slice(r, SkipWs(r, 1), Len(r))

\* ------------------------------------------------------------------------
\* _extract_json_from_text: the four strategies and the fallback
\* ------------------------------------------------------------------------
Miss == [hit |-> FALSE, text |-> <<>>]
Hit(t) == [hit |-> TRUE, text |-> t]

\* first index e >= k where a line feed is followed by a fence; 0 if none
RECURSIVE FirstClosing(_, _)
FirstClosing(s, k) ==
    IF k >= Len(s) THEN 0
    ELSE IF s[k] = NL /\ s[k + 1] = FN THEN k
    ELSE FirstClosing(s, k + 1)

\* the match of  ```(?:json)?\s*\n(.*?)\n```  (DOTALL) that starts at the fence
\* at index i: the greedy \s* gives back white space until the rest matches,
\* the lazy group stops at the first line feed followed by a fence
RECURSIVE OpenAt(_, _, _)
OpenAt(s, lo, p) ==
    \* p runs down over the white space after the tag; lo is its first index
    IF p < lo THEN [ok |-> FALSE, cs |-> 0, ce |-> 0]
    ELSE IF s[p] = NL /\ FirstClosing(s, p + 1) # 0
         THEN [ok |-> TRUE, cs |-> p + 1, ce |-> FirstClosing(s, p + 1)]
         ELSE OpenAt(s, lo, p - 1)

BlockAt(s, i) ==
    LET lo == IF i + 1 <= Len(s) /\ s[i + 1] = JS THEN i + 2 ELSE i + 1
    IN  OpenAt(s, lo, SkipWs(s, lo) - 1)

\* json_code_block_pattern.findall(text): the captured groups, left to right,
\* matches not overlapping
RECURSIVE code_block_findall(_, _)
code_block_findall(s, i) ==
    IF i > Len(s) THEN <<>>
    ELSE IF s[i] = FN /\ BlockAt(s, i).ok
         THEN LET b == BlockAt(s, i)
              IN  <<Slice(s, b.cs, b.ce - 1)>> \o code_block_findall(s, b.ce + 2)
         ELSE code_block_findall(s, i + 1)

\* for potential_json in reversed(matches): the first that parses, stripped
RECURSIVE LastParsing(_, _)
LastParsing(ms, k) ==
    IF k = 0 THEN Miss
    ELSE IF json_loads(strip(ms[k])).ok THEN Hit(strip(ms[k]))
    ELSE LastParsing(ms, k - 1)

\* the scan without strategy 1: no block is ever taken
FencedScanOff(s) == Miss
FencedScan(s) == LET ms == code_block_findall(s, 1) IN LastParsing(ms, Len(ms))

\* nesting the brace pattern accepts: an object, objects in it, objects in those
RegexDepth == 3

\* index of the brace closing the one opened before index i at depth d;
\* 0 when the text ends first or the nesting exceeds the pattern
RECURSIVE BraceEnd(_, _, _)
BraceEnd(s, i, d) ==
    IF i > Len(s) THEN 0
    ELSE IF s[i] = LB THEN (IF d = RegexDepth THEN 0 ELSE BraceEnd(s, i + 1, d + 1))
    ELSE IF s[i] = RB THEN (IF d = 1 THEN i ELSE BraceEnd(s, i + 1, d - 1))
    ELSE BraceEnd(s, i + 1, d)

\* json_pattern.findall(text)
RECURSIVE json_pattern_findall(_, _)
json_pattern_findall(s, i) ==
    IF i > Len(s) THEN <<>>
    ELSE IF s[i] = LB /\ BraceEnd(s, i + 1, 1) # 0
         THEN LET e == BraceEnd(s, i + 1, 1)
              IN  <<Slice(s, i, e)>> \o json_pattern_findall(s, e + 1)
         ELSE json_pattern_findall(s, i + 1)

\* index of the first longest element of a non-empty sequence of texts
FirstLongest(cs) ==
    CHOOSE k \in 1..Len(cs) :
        /\ \A j \in 1..Len(cs) : CharLen(cs[j]) <= CharLen(cs[k])
        /\ \A j \in 1..(k - 1) : CharLen(cs[j]) < CharLen(cs[k])

Remove(cs, k) == SubSeq(cs, 1, k - 1) \o SubSeq(cs, k + 1, Len(cs))

\* the candidates left in the order findall gave them
candidates_unsorted(cs) == cs
\* json_candidates.sort(key=len, reverse=True): stable
RECURSIVE sort_len_reverse(_)
sort_len_reverse(cs) ==
    IF cs = <<>> THEN <<>>
    ELSE LET k == FirstLongest(cs) IN <<cs[k]>> \o sort_len_reverse(Remove(cs, k))

RECURSIVE FirstParsing(_, _)
FirstParsing(cs, k) ==
    IF k > Len(cs) THEN Miss
    ELSE IF json_loads(cs[k]).ok THEN Hit(cs[k])
    ELSE FirstParsing(cs, k + 1)

RegexScan(s) == FirstParsing(sort_len_reverse(json_pattern_findall(s, 1)), 1)

\* text.find(c) and text.rfind(c) as 1-based indexes, 0 when absent
RECURSIVE find(_, _, _)
find(s, c, i) == IF i > Len(s) THEN 0 ELSE IF s[i] = c THEN i ELSE find(s, c, i + 1)
RECURSIVE rfind(_, _, _)
rfind(s, c, i) == IF i = 0 THEN 0 ELSE IF s[i] = c THEN i ELSE rfind(s, c, i - 1)

\* the slice returned without json.loads on it
BraceSliceUnchecked(s) ==
    LET start == find(s, LB, 1)
        end == rfind(s, RB, Len(s))
    IN  IF start # 0 /\ end # 0 /\ end > start THEN Hit(Slice(s, start, end)) ELSE Miss
BraceSlice(s) ==
    LET start == find(s, LB, 1)
        end == rfind(s, RB, Len(s))
    IN  IF start # 0 /\ end # 0 /\ end > start /\ json_loads(Slice(s, start, end)).ok
        THEN Hit(Slice(s, start, end))
        ELSE Miss

\* text.split('\n')
RECURSIVE split_lines(_)
split_lines(s) ==
    LET k == find(s, NL, 1) IN
    IF k = 0 THEN <<s>> ELSE <<Slice(s, 1, k - 1)>> \o split_lines(Slice(s, k + 1, Len(s)))

\* '\n'.join(lines)
RECURSIVE join_lines(_)
join_lines(ls) ==
    IF ls = <<>> THEN <<>>
    ELSE IF Len(ls) = 1 THEN ls[1]
    ELSE ls[1] \o <<NL>> \o join_lines(Tail(ls))

startswith(l, c) == l # <<>> /\ l[1] = c
endswith(l, c) == l # <<>> /\ l[Len(l)] = c

\* the loop over the lines: json_started and json_lines are its state
RECURSIVE LineLoop(_, _, _, _)
LineLoop(ls, k, json_started, json_lines) ==
    IF k > Len(ls) THEN Miss
    ELSE LET line == strip(ls[k]) IN
         IF ~json_started /\ startswith(line, LB)
         THEN LineLoop(ls, k + 1, TRUE, Append(json_lines, line))
         ELSE IF json_started
         THEN LET acc == Append(json_lines, line) IN
              IF endswith(line, RB) /\ json_loads(join_lines(acc)).ok
              THEN Hit(join_lines(acc))
              ELSE LineLoop(ls, k + 1, TRUE, acc)
         ELSE LineLoop(ls, k + 1, FALSE, json_lines)

LineScan(s) == LineLoop(split_lines(s), 1, FALSE, <<>>)

\* the string "{}" returned as a fallback
EmptyJson == <<LB, RB>>

\* ------------------------------------------------------------------------
\* Serialisation of a value (json.dumps), in three layouts
\* ------------------------------------------------------------------------
Styles == {"compact", "default", "indent"}

RECURSIVE Repeat(_, _)
Repeat(t, k) == IF k <= 0 THEN <<>> ELSE <<t>> \o Repeat(t, k - 1)

StrTokens(v) == [i \in 1..v.n |-> (CHOOSE p \in v.m : p[1] = i)[2]]

KeyOrder == <<"a", "b">>
KeyToken(k) == IF k = "a" THEN KA ELSE KB
Member(v, k) == (CHOOSE p \in v.m : p[1] = k)[2]
HasMember(v, k) == \E p \in v.m : p[1] = k

RECURSIVE dumps(_, _, _), dumps_members(_, _, _, _, _)
\* json.dumps(v) at nesting level lvl: separators (',', ':') for "compact",
\* (', ', ': ') for "default", indent=1 for "indent"
dumps(v, style, lvl) ==
    IF v.t = "num" THEN Repeat(N1, v.n)
    ELSE IF v.t = "str" THEN <<DQ>> \o StrTokens(v) \o <<DQ>>
    ELSE IF v.m = {} THEN <<LB, RB>>
    ELSE <<LB>> \o dumps_members(v, style, lvl + 1, 1, TRUE)
              \o (IF style = "indent" THEN <<NL>> \o Repeat(SP, lvl) ELSE <<>>)
              \o <<RB>>

dumps_members(v, style, lvl, k, first) ==
    IF k > Len(KeyOrder) THEN <<>>
    ELSE IF ~HasMember(v, KeyOrder[k]) THEN dumps_members(v, style, lvl, k + 1, first)
    ELSE (IF first THEN <<>> ELSE <<CM>>)
         \o (IF style = "indent" THEN <<NL>> \o Repeat(SP, lvl)
             ELSE IF style = "default" /\ ~first THEN <<SP>> ELSE <<>>)
         \o <<KeyToken(KeyOrder[k])>>
         \o (IF style = "compact" THEN <<>> ELSE <<SP>>)
         \o dumps(Member(v, KeyOrder[k]), style, lvl)
         \o dumps_members(v, style, lvl, k + 1, FALSE)

\* ------------------------------------------------------------------------
\* The inputs: raw contents an LLM response can carry
\* ------------------------------------------------------------------------
MaxLen == 3        \* length of the exhaustively enumerated short texts
MaxNest == 4       \* deepest nesting of the serialised objects
MaxBlocks == 2     \* fenced blocks in a multi-block text

ShortAlphabet == {LB, RB, KA, N1, CM, SP, NL, FN, XX, DQ}
ShortTexts == UNION {[1..k -> ShortAlphabet] : k \in 0..MaxLen}

Scalars == {Num(1), Num(2), Str(<<>>), Str(<<RB>>), Str(<<LB, XX>>), Str(<<FN>>)}
FlatObjects ==
    {EmptyObj} \cup {Obj({<<"a", x>>}) : x \in Scalars}
               \cup {Obj({<<"a", x>>, <<"b", y>>}) : x \in {Num(1), Str(<<RB>>)}, y \in {Num(1), EmptyObj}}

\* {"a": {"a": ... inner}} with k enclosing objects
RECURSIVE Nest(_, _)
Nest(k, inner) == IF k = 0 THEN inner ELSE Obj({<<"a", Nest(k - 1, inner)>>})

NestedObjects == {Nest(k, inner) : k \in 1..(MaxNest - 1), inner \in {EmptyObj, Obj({<<"a", Num(1)>>})}}
                 \cup {Obj({<<"a", Obj({<<"a", Num(1)>>})>>, <<"b", EmptyObj>>})}

Values == Scalars \cup FlatObjects \cup NestedObjects

\* prose around a block: none, words, a stray brace, a complete object
ProseBefore == {<<>>, <<XX, SP>>, <<XX, NL>>, <<LB, RB, NL>>, <<LB, XX, NL>>, <<N1, NL>>}
ProseAfter == {<<>>, <<NL, XX>>, <<XX>>, <<NL, LB, KA, N1, RB>>, <<NL, XX, RB>>}

\* text around a serialised value that is not in a block
LooseBefore == {<<>>, <<XX, NL>>}
LooseAfter == {<<>>, <<NL, XX>>, <<NL, XX, RB>>}

\* the opening line of a block: untagged, tagged json, json and a blank, other
Tags == {"", "json", "json ", "x"}
TagTokens(tag) ==
    IF tag = "json" THEN <<JS>> ELSE IF tag = "json " THEN <<JS, SP>>
    ELSE IF tag = "x" THEN <<XX>> ELSE <<>>
JsonTags == {"", "json", "json "}

Fenced(tag, body) == <<FN>> \o TagTokens(tag) \o <<NL>> \o body \o <<NL, FN>>

\* bodies of the blocks of a multi-block text: valid, truncated, prose, blank
Bodies == {<<LB, RB>>, <<LB, KA, N1, RB>>, <<N1>>, <<LB, KA>>, <<XX>>, <<>>}
BlockSpecs == [tag : {"", "json", "x"}, body : Bodies]
Separators == {<<NL>>, <<NL, XX, NL>>}

RECURSIVE BlocksText(_, _)
BlocksText(bs, sep) ==
    IF bs = <<>> THEN <<>>
    ELSE Fenced(bs[1].tag, bs[1].body)
         \o (IF Len(bs) > 1 THEN sep ELSE <<>>) \o BlocksText(Tail(bs), sep)

PyStr(s) == [py |-> "str", s |-> s]
PyOther(ty) == [py |-> ty, s |-> <<>>]
NonStrTypes == {"NoneType", "dict", "list", "int"}

NoRecipe == [kind |-> "none", v |-> Num(0), style |-> "compact", tag |-> "",
             before |-> <<>>, after |-> <<>>, blocks |-> <<>>, sep |-> <<>>]

\* ------------------------------------------------------------------------
\* State
\* ------------------------------------------------------------------------
\* the extraction of JSON from one raw content
VARIABLES
    content,     \* the argument of _parse_content_to_json / _extract_json_from_text
    made,        \* how the content was put together (history, not program state)
    entry,       \* the function called: "parse" or "extract"
    epc,         \* position inside the two functions
    extracted,   \* what _extract_json_from_text returned ([hit, text])
    strategy,    \* the strategy that returned it
    eresult      \* what the called function returned or raised

evars == <<content, made, entry, epc, extracted, strategy, eresult>>

\* one run of a caller of process_documents
VARIABLES
    caller,           \* "main_page" or "test_async_processing"
    resume_file,      \* "absent", "unreadable" (text extraction failed) or "ok"
    offer_texts,      \* the extracted offer texts, in submission order
    mpc,              \* position of the caller
    resume_text,      \* argument of process_documents: "R", "" or "None"
    pd_pc,            \* position inside process_documents
    tasks,            \* the coroutines of the run, in list order
    arrival,          \* indexes of the tasks in order of completion
    requests,         \* documents an LLM request was sent for, in order
    combined_result,  \* what process_documents returned
    results           \* the record the caller assembles

ovars == <<caller, resume_file, offer_texts, mpc, resume_text, pd_pc, tasks,
           arrival, requests, combined_result, results>>

\* a record and the calls of enrich_school_rankings on it
VARIABLES
    rec0,         \* the record before the first call
    rec,          \* the record, changed in place
    after1,       \* the record as the first call left it
    enr_calls,    \* calls made so far
    enr_raised    \* whether the last call raised

rvars == <<rec0, rec, after1, enr_calls, enr_raised>>

\* a record and the calls of calculate_student_tags on it
VARIABLES
    student_data0,  \* the record before the first call
    student_data,   \* the record, the tags field included
    tag_calls,      \* calls made so far
    tag_returns,    \* what the calls returned, in order
    tag_stored      \* whether the caller has stored a result in the record

tvars == <<student_data0, student_data, tag_calls, tag_returns, tag_stored>>

\* the result file: what output_path held before the save and holds now, the
\* record being saved, how far json.dump has come, what is still in the
\* buffer of the open file, and how the save ended
VARIABLES
    save_entry,  \* "save_results" (processor.py), "dump" (test_llm.py, streamlit.py)
    save_doc,    \* results, the record
    disk0,       \* the file before the save
    disk,        \* the file now
    save_pc,     \* "start", "writing", "done", "raised", "killed"
    save_next,   \* the next chunk json.dump writes
    save_buf,    \* written to f, not yet on disk
    save_ret     \* "none", "True", "False"
svars == <<save_entry, save_doc, disk0, disk, save_pc, save_next, save_buf, save_ret>>

\* process_excel on one file
VARIABLES
    x_file,     \* the file at file_path: there or not, extension, sheets, rows
    x_row,      \* row_index: None or a number
    x_pc,       \* "start", "parse", "parsed", "done"
    x_content,  \* what the parser returned
    x_total,    \* total_rows as extract_row returned it
    x_result    \* the dict process_excel returns
xvars == <<x_file, x_row, x_pc, x_content, x_total, x_result>>

\* one run of a caller from the collected results to the saved file
VARIABLES
    p_caller,   \* "test_async_processing" (test_llm.py), "main_page" (streamlit.py)
    p_resume,   \* resume_analysis of the record
    p_rec0,     \* the record as collected
    p_rec,      \* the record now
    p_tags,     \* what calculate_student_tags returned
    p_stored,   \* the tags field of the record
    p_pc,       \* "collected", "enriched", "tagged", "stored", "saved", "aborted"
    p_steps,    \* the steps taken so far
    p_saved     \* the record and tags written to the file
pvars == <<p_caller, p_resume, p_rec0, p_rec, p_tags, p_stored, p_pc, p_steps, p_saved>>

vars == <<evars, ovars, rvars, tvars, svars, xvars, pvars>>


NoResult == [kind |-> "none", val |-> Num(0), msg |-> ""]
Returned(v) == [kind |-> "value", val |-> v, msg |-> ""]
ReturnedText(t) == [kind |-> "text", val |-> Str(t), msg |-> ""]
ErrorValue(m) == [kind |-> "error", val |-> Num(0), msg |-> m]
Raised(exc) == [kind |-> "raised", val |-> Num(0), msg |-> exc]

ParseErrorMsg == "cannot parse the LLM response as JSON"

ExtractStart(c, m, e) ==
    /\ content = c
    /\ made = m
    /\ entry = e
    /\ epc = IF e = "parse" THEN "loads" ELSE "none_check"
    /\ extracted = Miss
    /\ strategy = "none"
    /\ eresult = NoResult

ExtractInit ==
    \E e \in {"parse", "extract"} :
        \/ \E s \in ShortTexts :
               ExtractStart(PyStr(s), [NoRecipe EXCEPT !.kind = "short"], e)
        \/ \E v \in Values, style \in Styles, tag \in JsonTags,
              before \in ProseBefore, after \in ProseAfter :
               ExtractStart(PyStr(before \o Fenced(tag, dumps(v, style, 0)) \o after),
                            [NoRecipe EXCEPT !.kind = "wrapped", !.v = v, !.style = style,
                                             !.tag = tag, !.before = before, !.after = after],
                            e)
        \/ \E v \in Values, style \in Styles, before \in LooseBefore, after \in LooseAfter :
               ExtractStart(PyStr(before \o dumps(v, style, 0) \o after),
                            [NoRecipe EXCEPT !.kind = "loose", !.v = v, !.style = style,
                                             !.before = before, !.after = after], e)
        \/ \E k \in 2..MaxBlocks : \E bs \in [1..k -> BlockSpecs], sep \in Separators :
               ExtractStart(PyStr(BlocksText(bs, sep)),
                            [NoRecipe EXCEPT !.kind = "blocks", !.blocks = bs, !.sep = sep], e)
        \/ \E ty \in NonStrTypes :
               ExtractStart(PyOther(ty), [NoRecipe EXCEPT !.kind = "nonstr"], e)

\* ------------------------------------------------------------------------
\* _parse_content_to_json and _extract_json_from_text, statement by statement
\* ------------------------------------------------------------------------
\* json.loads(content): a TypeError for anything but a str is not caught by
\* "except json.JSONDecodeError"
Loads ==
    /\ epc = "loads"
    /\ IF content.py # "str"
       THEN /\ eresult' = Raised("TypeError")
            /\ epc' = "done"
       ELSE IF json_loads(content.s).ok
       THEN /\ eresult' = Returned(json_loads(content.s).val)
            /\ epc' = "done"
       ELSE /\ eresult' = eresult
            /\ epc' = "none_check"
    /\ UNCHANGED <<content, made, entry, extracted, strategy>>
    /\ UNCHANGED <<ovars, rvars, tvars, svars, xvars, pvars>>

\* _extract_json_from_text returns t
ExtractReturns(t, by) ==
    /\ extracted' = Hit(t)
    /\ strategy' = by
    /\ IF entry = "parse"
       THEN /\ epc' = "reloads"
            /\ eresult' = eresult
       ELSE /\ epc' = "done"
            /\ eresult' = ReturnedText(t)

\* the function without strategy 1 in front: a text goes to the brace pattern
NoneCheckSkipsFenced ==
    /\ epc = "none_check"
    /\ IF content.py = "NoneType"
       THEN ExtractReturns(EmptyJson, "none")
       ELSE /\ epc' = IF content.py = "str" THEN "regex" ELSE "fenced"
            /\ UNCHANGED <<extracted, strategy, eresult>>
    /\ UNCHANGED <<content, made, entry>>
    /\ UNCHANGED <<ovars, rvars, tvars, svars, xvars, pvars>>

\* if text is None: return "{}"
NoneCheck ==
    /\ epc = "none_check"
    /\ IF content.py = "NoneType"
       THEN ExtractReturns(EmptyJson, "none")
       ELSE /\ epc' = "fenced"
            /\ UNCHANGED <<extracted, strategy, eresult>>
    /\ UNCHANGED <<content, made, entry>>
    /\ UNCHANGED <<ovars, rvars, tvars, svars, xvars, pvars>>

\* strategy 1; findall on something that is not a str raises TypeError
FencedStep ==
    /\ epc = "fenced"
    /\ IF content.py # "str"
       THEN /\ eresult' = Raised("TypeError")
            /\ epc' = "done"
            /\ UNCHANGED <<extracted, strategy>>
       ELSE IF FencedScan(content.s).hit
       THEN ExtractReturns(FencedScan(content.s).text, "fenced")
       ELSE /\ epc' = "regex"
            /\ UNCHANGED <<extracted, strategy, eresult>>
    /\ UNCHANGED <<content, made, entry>>
    /\ UNCHANGED <<ovars, rvars, tvars, svars, xvars, pvars>>

\* strategy 2
RegexStep ==
    /\ epc = "regex"
    /\ IF RegexScan(content.s).hit
       THEN ExtractReturns(RegexScan(content.s).text, "regex")
       ELSE /\ epc' = "slice"
            /\ UNCHANGED <<extracted, strategy, eresult>>
    /\ UNCHANGED <<content, made, entry>>
    /\ UNCHANGED <<ovars, rvars, tvars, svars, xvars, pvars>>

\* strategy 3
SliceStep ==
    /\ epc = "slice"
    /\ IF BraceSlice(content.s).hit
       THEN ExtractReturns(BraceSlice(content.s).text, "slice")
       ELSE /\ epc' = "lines"
            /\ UNCHANGED <<extracted, strategy, eresult>>
    /\ UNCHANGED <<content, made, entry>>
    /\ UNCHANGED <<ovars, rvars, tvars, svars, xvars, pvars>>

\* strategy 4, and the fallback that ends the function
LinesStep ==
    /\ epc = "lines"
    /\ IF LineScan(content.s).hit
       THEN ExtractReturns(LineScan(content.s).text, "lines")
       ELSE ExtractReturns(EmptyJson, "fallback")
    /\ UNCHANGED <<content, made, entry>>
    /\ UNCHANGED <<ovars, rvars, tvars, svars, xvars, pvars>>

\* json.loads(extracted_json), any exception turned into the error value
Reloads ==
    /\ epc = "reloads"
    /\ eresult' = IF json_loads(extracted.text).ok
                  THEN Returned(json_loads(extracted.text).val)
                  ELSE ErrorValue(ParseErrorMsg)
    /\ epc' = "done"
    /\ UNCHANGED <<content, made, entry, extracted, strategy>>
    /\ UNCHANGED <<ovars, rvars, tvars, svars, xvars, pvars>>

ExtractNext == Loads \/ NoneCheck \/ FencedStep \/ RegexStep \/ SliceStep \/ LinesStep \/ Reloads

\* ------------------------------------------------------------------------
\* The two functions as operators (what a caller gets back)
\* ------------------------------------------------------------------------
\* _extract_json_from_text(text) for a str text
extract_json_from_text(s) ==
    IF FencedScan(s).hit THEN FencedScan(s).text
    ELSE IF RegexScan(s).hit THEN RegexScan(s).text
    ELSE IF BraceSlice(s).hit THEN BraceSlice(s).text
    ELSE IF LineScan(s).hit THEN LineScan(s).text
    ELSE EmptyJson

\* _parse_content_to_json(content)
parse_content_to_json(c) ==
    IF c.py # "str" THEN Raised("TypeError")
    ELSE IF json_loads(c.s).ok THEN Returned(json_loads(c.s).val)
    ELSE LET t == extract_json_from_text(c.s) IN
         IF json_loads(t).ok THEN Returned(json_loads(t).val) ELSE ErrorValue(ParseErrorMsg)

\* ------------------------------------------------------------------------
\* One LLM call: _call_llm_async (and _call_llm, which maps the same cases)
\* ------------------------------------------------------------------------
\* a result dict: the document it is the analysis of, its keys, and either the
\* error message or the parsed value
NoSlot == [doc |-> "", kind |-> "none", keys |-> {}, msg |-> "", val |-> Num(0)]
ErrorDict(doc, m, ks) == [doc |-> doc, kind |-> "error", keys |-> ks, msg |-> m, val |-> Num(0)]
KeysOf(v) == IF v.t = "obj" THEN {p[1] : p \in v.m} ELSE {}
ValueSlot(doc, v) == [doc |-> doc, kind |-> "value", keys |-> KeysOf(v), msg |-> "", val |-> v]

\* what can happen to one request
TransportFailures == {"timeout", "client_error", "http_error", "bad_body", "no_content"}
\* the content of a response: an analysis {"a": 1} (a stands for admissions),
\* prose without any JSON, a list of content parts
Analysis == Obj({<<"a", Num(1)>>})
ResponseContents == {PyStr(<<LB, KA, N1, RB>>), PyStr(<<XX, SP, XX>>), PyOther("list")}
Outcomes == [kind : TransportFailures, content : {PyOther("NoneType")}]
            \cup [kind : {"content"}, content : ResponseContents]
\* the outcomes taken for the one synchronous call of main_page (_call_llm maps
\* them to the same dicts)
SyncOutcomes == {o \in Outcomes : o.kind \in {"timeout", "content"} /\ o.content.py # "list"}

\* _call_llm_async without its last handler: an exception of the parse is not
\* turned into a dict
call_llm_async_uncaught(doc, o) ==
    IF o.kind = "timeout" THEN ErrorDict(doc, "request timed out", {"error"})
    ELSE IF o.kind = "client_error" THEN ErrorDict(doc, "cannot connect", {"error"})
    ELSE IF o.kind = "http_error" THEN ErrorDict(doc, "request failed", {"error", "details"})
    ELSE IF o.kind = "bad_body" THEN ErrorDict(doc, "error calling the LLM API", {"error"})
    ELSE IF o.kind = "no_content" THEN ErrorDict(doc, "no content in response", {"error", "raw_response"})
    ELSE LET r == parse_content_to_json(o.content) IN
         IF r.kind = "value" THEN ValueSlot(doc, r.val)
         ELSE IF r.kind = "error" THEN ErrorDict(doc, r.msg, {"error", "raw_content"})
         ELSE [ErrorDict(doc, r.msg, {}) EXCEPT !.kind = "raised"]

\* the dict _call_llm_async returns for the document doc when the request ends
\* in outcome o; "except Exception" turns an exception of the parse into a dict
call_llm_async(doc, o) ==
    IF o.kind = "timeout" THEN ErrorDict(doc, "request timed out", {"error"})
    ELSE IF o.kind = "client_error" THEN ErrorDict(doc, "cannot connect", {"error"})
    ELSE IF o.kind = "http_error" THEN ErrorDict(doc, "request failed", {"error", "details"})
    ELSE IF o.kind = "bad_body" THEN ErrorDict(doc, "error calling the LLM API", {"error"})
    ELSE IF o.kind = "no_content" THEN ErrorDict(doc, "no content in response", {"error", "raw_response"})
    ELSE LET r == parse_content_to_json(o.content) IN
         IF r.kind = "value" THEN ValueSlot(doc, r.val)
         ELSE IF r.kind = "error" THEN ErrorDict(doc, r.msg, {"error", "raw_content"})
         ELSE ErrorDict(doc, "error calling the LLM API", {"error"})

\* ------------------------------------------------------------------------
\* process_documents and its callers
\* ------------------------------------------------------------------------
MaxOffers == 2     \* offer texts in one run

OfferNames == <<"A", "B", "C", "D", "E">>


NoCombined == [resume_analysis |-> NoSlot, offer_analyses |-> <<>>]
NoOutcome == [kind |-> "none", content |-> PyOther("NoneType")]
NewTask(doc) == [doc |-> doc, st |-> "created", outcome |-> NoOutcome, result |-> NoSlot]

OrchInit ==
    /\ caller \in {"main_page", "test_async_processing"}
    /\ resume_file \in {"absent", "unreadable", "ok"}
    /\ \E n \in 0..MaxOffers : offer_texts = SubSeq(OfferNames, 1, n)
    \* test_async_processing returns early without a resume text or offer texts
    /\ caller = "test_async_processing" => resume_file = "ok" /\ offer_texts # <<>>
    \* main_page returns early when nothing was uploaded
    /\ caller = "main_page" => resume_file # "absent" \/ offer_texts # <<>>
    /\ mpc = "start"
    /\ resume_text = "None"
    /\ pd_pc = "idle"
    /\ tasks = <<>>
    /\ arrival = <<>>
    /\ requests = <<>>
    /\ combined_result = NoCombined
    /\ results = [has_resume |-> FALSE, resume_analysis |-> NoSlot,
                  has_offers |-> FALSE, offer_analyses |-> <<>>]

\* main_page: llm_processor.analyze_resume(...) when the resume text was extracted
MainResume ==
    /\ caller = "main_page" /\ mpc = "start"
    /\ IF resume_file = "ok"
       THEN \E o \in SyncOutcomes :
               /\ results' = [results EXCEPT !.has_resume = TRUE,
                                             !.resume_analysis = call_llm_async("resume", o)]
               /\ requests' = Append(requests, "resume")
       ELSE UNCHANGED <<results, requests>>
    /\ mpc' = "offers"
    /\ UNCHANGED <<caller, resume_file, offer_texts, resume_text, pd_pc, tasks, arrival,
                   combined_result>>
    /\ UNCHANGED <<evars, rvars, tvars, svars, xvars, pvars>>

\* main_page: if offer_texts: asyncio.run(process_documents(...)); the first
\* statement of process_documents builds the list with the resume coroutine
MainOffers ==
    /\ caller = "main_page" /\ mpc = "offers"
    /\ IF offer_texts # <<>>
       THEN /\ resume_text' = IF resume_file = "ok" THEN "R"
                              ELSE IF resume_file = "unreadable" THEN "None" ELSE ""
            /\ tasks' = <<NewTask("resume")>>
            /\ pd_pc' = "build"
            /\ mpc' = "in_process_documents"
       ELSE /\ mpc' = "assembled"
            /\ UNCHANGED <<resume_text, tasks, pd_pc>>
    /\ UNCHANGED <<caller, resume_file, offer_texts, arrival, requests, combined_result, results>>
    /\ UNCHANGED <<evars, rvars, tvars, svars, xvars, pvars>>

\* test_async_processing: await llm_processor.process_documents(...)
TestAsyncCall ==
    /\ caller = "test_async_processing" /\ mpc = "start"
    /\ resume_text' = "R"
    /\ tasks' = <<NewTask("resume")>>
    /\ pd_pc' = "build"
    /\ mpc' = "in_process_documents"
    /\ UNCHANGED <<caller, resume_file, offer_texts, arrival, requests, combined_result, results>>
    /\ UNCHANGED <<evars, rvars, tvars, svars, xvars, pvars>>

\* for offer_text in offer_texts: tasks.append(self.analyze_offer_async(offer_text))
PdAppend ==
    /\ pd_pc = "build"
    /\ Len(tasks) < 1 + Len(offer_texts)
    /\ tasks' = Append(tasks, NewTask(offer_texts[Len(tasks)]))
    /\ UNCHANGED <<caller, resume_file, offer_texts, mpc, resume_text, pd_pc, arrival,
                   requests, combined_result, results>>
    /\ UNCHANGED <<evars, rvars, tvars, svars, xvars, pvars>>

\* asyncio.gather(*tasks): every coroutine becomes a scheduled task, then await
PdGather ==
    /\ pd_pc = "build"
    /\ Len(tasks) = 1 + Len(offer_texts)
    /\ tasks' = [i \in 1..Len(tasks) |-> [tasks[i] EXCEPT !.st = "scheduled"]]
    /\ pd_pc' = "awaiting"
    /\ UNCHANGED <<caller, resume_file, offer_texts, mpc, resume_text, arrival,
                   requests, combined_result, results>>
    /\ UNCHANGED <<evars, rvars, tvars, svars, xvars, pvars>>

\* the event loop runs the scheduled tasks first in, first out; a task runs
\* up to session.post, where its request leaves
TaskStart(i) ==
    /\ pd_pc = "awaiting"
    /\ tasks[i].st = "scheduled"
    /\ \A j \in 1..(i - 1) : tasks[j].st # "scheduled"
    /\ tasks' = [tasks EXCEPT ![i].st = "pending"]
    /\ requests' = Append(requests, tasks[i].doc)
    /\ UNCHANGED <<caller, resume_file, offer_texts, mpc, resume_text, pd_pc, arrival,
                   combined_result, results>>
    /\ UNCHANGED <<evars, rvars, tvars, svars, xvars, pvars>>

\* a request ends, in any order, and _call_llm_async returns its dict
TaskComplete(i) ==
    /\ pd_pc = "awaiting"
    /\ tasks[i].st = "pending"
    /\ \E o \in Outcomes :
           tasks' = [tasks EXCEPT ![i].st = "done", ![i].outcome = o,
                                  ![i].result = call_llm_async(tasks[i].doc, o)]
    /\ arrival' = Append(arrival, i)
    /\ UNCHANGED <<caller, resume_file, offer_texts, mpc, resume_text, pd_pc, requests,
                   combined_result, results>>
    /\ UNCHANGED <<evars, rvars, tvars, svars, xvars, pvars>>

\* a wait that ends with the first child
GatherDoneAny(ts) == \E i \in 1..Len(ts) : ts[i].st = "done"
\* gather is done when every child is done
GatherDone(ts) == \A i \in 1..Len(ts) : ts[i].st = "done"

\* the results in the order the requests ended
GatherResultsByArrival(ts, arrived) == [k \in 1..Len(ts) |-> ts[arrived[k]].result]
\* the list gather returns: the results in the order of its arguments
GatherResults(ts, arrived) == [i \in 1..Len(ts) |-> ts[i].result]

\* results = await asyncio.gather(*tasks); combined_result = {...}; return
PdReturn ==
    /\ pd_pc = "awaiting"
    /\ GatherDone(tasks)
    /\ LET rs == GatherResults(tasks, arrival) IN
       combined_result' = [resume_analysis |-> rs[1],
                           offer_analyses |-> IF Len(rs) > 1 THEN SubSeq(rs, 2, Len(rs)) ELSE <<>>]
    /\ pd_pc' = "returned"
    /\ UNCHANGED <<caller, resume_file, offer_texts, mpc, resume_text, tasks, arrival,
                   requests, results>>
    /\ UNCHANGED <<evars, rvars, tvars, svars, xvars, pvars>>

\* main_page: an offer that is a dict with "admissions" (key a) is kept, any
\* other is replaced by {"admissions": []}
EmptyList == [t |-> "list", n |-> 0, m |-> {}]
EmptyAnalysis(doc) == [doc |-> doc, kind |-> "value", keys |-> {"a"}, msg |-> "",
                       val |-> Obj({<<"a", EmptyList>>})]
processed_offer(offer) ==
    IF offer.kind = "value" /\ offer.val.t = "obj" /\ "a" \in offer.keys
    THEN offer
    ELSE EmptyAnalysis(offer.doc)

MainAssemble ==
    /\ caller = "main_page" /\ mpc = "in_process_documents" /\ pd_pc = "returned"
    /\ results' = [results EXCEPT
                     !.has_offers = TRUE,
                     !.offer_analyses = [i \in 1..Len(combined_result.offer_analyses) |->
                                            processed_offer(combined_result.offer_analyses[i])]]
    /\ mpc' = "assembled"
    /\ UNCHANGED <<caller, resume_file, offer_texts, resume_text, pd_pc, tasks, arrival,
                   requests, combined_result>>
    /\ UNCHANGED <<evars, rvars, tvars, svars, xvars, pvars>>

\* test_async_processing works on combined_result itself
TestAsyncCollect ==
    /\ caller = "test_async_processing" /\ mpc = "in_process_documents" /\ pd_pc = "returned"
    /\ results' = [has_resume |-> TRUE, resume_analysis |-> combined_result.resume_analysis,
                   has_offers |-> TRUE, offer_analyses |-> combined_result.offer_analyses]
    /\ mpc' = "assembled"
    /\ UNCHANGED <<caller, resume_file, offer_texts, resume_text, pd_pc, tasks, arrival,
                   requests, combined_result>>
    /\ UNCHANGED <<evars, rvars, tvars, svars, xvars, pvars>>

OrchNext ==
    \/ MainResume \/ MainOffers \/ TestAsyncCall
    \/ PdAppend \/ PdGather
    \/ \E i \in 1..Len(tasks) : TaskStart(i)
    \/ \E i \in 1..Len(tasks) : TaskComplete(i)
    \/ PdReturn
    \/ MainAssemble \/ TestAsyncCollect

\* ------------------------------------------------------------------------
\* enrich_school_rankings
\* ------------------------------------------------------------------------
\* a field of a dict: absent, null, or a str (a sequence of characters; the
\* ranking type and tier are one word each)
Missing == [py |-> "missing", s |-> <<>>]
None == [py |-> "None", s |-> <<>>]
S(chars) == [py |-> "str", s |-> chars]

\* a number, written as Python prints it, and the two bool
PyInt(cs) == [py |-> "int", s |-> cs]
PyFloat(cs) == [py |-> "float", s |-> cs]
True == [py |-> "bool", s |-> <<"True">>]
False == [py |-> "bool", s |-> <<"False">>]

\* bool(x) for a field read with dict.get
Truthy(x) ==
    \/ x.py = "str" /\ x.s # <<>>
    \/ x.py \in {"int", "float"} /\ \E i \in 1..Len(x.s) : x.s[i] \notin {"0", "."}
    \/ x = True
\* dict.get(key, default)
Get(x, default) == IF x.py = "missing" THEN default ELSE x

\* str.lower() on the letters of the school names
Upper == <<"M", "I", "T", "O", "X">>
Lower == <<"m", "i", "t", "o", "x">>
LowerChar(c) == IF \E k \in 1..Len(Upper) : Upper[k] = c
                THEN Lower[CHOOSE k \in 1..Len(Upper) : Upper[k] = c] ELSE c
lower(cs) == [i \in 1..Len(cs) |-> LowerChar(cs[i])]

\* a in b for two str
Contains(a, b) == \E i \in 0..(Len(b) - Len(a)) : SubSeq(b, i + 1, i + Len(a)) = a

\* the reference tables (qs_usnews_school_dict), rank -> name, in iteration order
qs_school_ranking ==
    << [rank |-> 1, name |-> <<"M", "i", "t">>],
       [rank |-> 5, name |-> <<"O", "x">>],
       [rank |-> 6, name |-> <<"M", "i", "o">>],
       [rank |-> 30, name |-> <<"T", "o", "m">>],
       [rank |-> 31, name |-> <<"X", "i">>],
       [rank |-> 100, name |-> <<"T", "i", "m">>],
       [rank |-> 101, name |-> <<"O", "m", "x">>] >>
usnews_school_ranking ==
    << [rank |-> 3, name |-> <<"O", "x">>],
       [rank |-> 10, name |-> <<"M", "i", "t">>],
       [rank |-> 11, name |-> <<"I", "o">>],
       [rank |-> 50, name |-> <<"T", "x">>],
       [rank |-> 51, name |-> <<"X", "o", "m">>] >>

\* str(ranking) for a positive int
Digits == <<"0", "1", "2", "3", "4", "5", "6", "7", "8", "9">>
RECURSIVE str_int(_)
str_int(n) == IF n < 10 THEN <<Digits[n + 1]>> ELSE str_int(n \div 10) \o <<Digits[(n % 10) + 1]>>

\* the loop without its break: the rank of the last entry that matches
find_ranking_last(school_name, ranking_dict, k) ==
    LET M == {j \in k..Len(ranking_dict) :
                  \/ Contains(lower(school_name), lower(ranking_dict[j].name))
                  \/ Contains(lower(ranking_dict[j].name), lower(school_name))}
    IN  IF M = {} THEN 0 ELSE ranking_dict[CHOOSE j \in M : \A i \in M : i <= j].rank
\* the loop over ranking_dict.items(): the rank of the first entry whose name
\* contains the school name or is contained in it; 0 (None) when there is none
RECURSIVE find_ranking(_, _, _)
find_ranking(school_name, ranking_dict, k) ==
    IF k > Len(ranking_dict) THEN 0
    ELSE IF \/ Contains(lower(school_name), lower(ranking_dict[k].name))
            \/ Contains(lower(ranking_dict[k].name), lower(school_name))
         THEN ranking_dict[k].rank
         ELSE find_ranking(school_name, ranking_dict, k + 1)

\* the chain with < in place of <=
ranking_tier_strict(ranking, old) ==
    IF ranking < 5 THEN S(<<"TOP5">>)
    ELSE IF ranking < 10 THEN S(<<"TOP10">>)
    ELSE IF ranking < 30 THEN S(<<"TOP30">>)
    ELSE IF ranking < 50 THEN S(<<"TOP50">>)
    ELSE IF ranking < 100 THEN S(<<"TOP100">>)
    ELSE old
\* the if/elif chain that sets rankingTier; the tier is left alone above 100
ranking_tier(ranking, old) ==
    IF ranking <= 5 THEN S(<<"TOP5">>)
    ELSE IF ranking <= 10 THEN S(<<"TOP10">>)
    ELSE IF ranking <= 30 THEN S(<<"TOP30">>)
    ELSE IF ranking <= 50 THEN S(<<"TOP50">>)
    ELSE IF ranking <= 100 THEN S(<<"TOP100">>)
    ELSE old

\* the guard on rankingValue dropped: every admission is looked up
needs_ranking_always(adm) == TRUE
\* if not admission.get("rankingValue"): only these admissions are processed
needs_ranking(adm) == ~Truthy(adm.rankingValue)

\* the inner loop with the QS table for every rankingType that is not US News
enrich_admission_any_type(adm) ==
    IF ~needs_ranking(adm) THEN [adm |-> adm, raised |-> FALSE]
    ELSE
        LET school_name == Get(adm.school, S(<<>>))
            ranking_type == Get(adm.rankingType, S(<<>>))
            ranking_dict == IF ranking_type = S(<<"US News">>)
                            THEN usnews_school_ranking ELSE qs_school_ranking
        IN  IF school_name.py # "str" THEN [adm |-> adm, raised |-> TRUE]
            ELSE LET ranking == find_ranking(school_name.s, ranking_dict, 1) IN
                 IF ranking = 0 THEN [adm |-> adm, raised |-> FALSE]
                 ELSE [adm |-> [adm EXCEPT !.rankingValue = S(str_int(ranking)),
                                           !.rankingTier = ranking_tier(ranking, adm.rankingTier)],
                       raised |-> FALSE]
\* the body of the inner loop for one admission: [adm, raised]
enrich_admission(adm) ==
    IF ~needs_ranking(adm) THEN [adm |-> adm, raised |-> FALSE]
    ELSE
        LET school_name == Get(adm.school, S(<<>>))
            ranking_type == Get(adm.rankingType, S(<<>>))
        IN  IF ranking_type \notin {S(<<"QS">>), S(<<"US News">>)}
            THEN [adm |-> adm, raised |-> FALSE]
            ELSE
                LET ranking_dict == IF ranking_type = S(<<"QS">>)
                                    THEN qs_school_ranking ELSE usnews_school_ranking
                IN  IF school_name.py # "str"
                    THEN \* None.lower(): AttributeError
                         [adm |-> adm, raised |-> TRUE]
                    ELSE
                        LET ranking == find_ranking(school_name.s, ranking_dict, 1) IN
                        IF ranking = 0
                        THEN [adm |-> adm, raised |-> FALSE]
                        ELSE [adm |-> [adm EXCEPT !.rankingValue = S(str_int(ranking)),
                                                  !.rankingTier = ranking_tier(ranking, adm.rankingTier)],
                              raised |-> FALSE]

\* the loops over the offers and their admissions, on the record as a flat
\* list of positions; an exception leaves the later admissions untouched
RECURSIVE enrich_list(_, _)
enrich_list(adms, k) ==
    IF k > Len(adms) THEN [adms |-> adms, raised |-> FALSE]
    ELSE LET r == enrich_admission(adms[k]) IN
         IF r.raised THEN [adms |-> adms, raised |-> TRUE]
         ELSE enrich_list([adms EXCEPT ![k] = r.adm], k + 1)

RECURSIVE enrich_offers(_, _)
enrich_offers(offers, k) ==
    IF k > Len(offers) THEN [offers |-> offers, raised |-> FALSE]
    ELSE LET r == enrich_list(offers[k].admissions, 1)
             done == [offers EXCEPT ![k].admissions = r.adms]
         IN  IF r.raised THEN [offers |-> done, raised |-> TRUE]
             ELSE enrich_offers(done, k + 1)

\* enrich_school_rankings(analysis_data): the record afterwards, and whether
\* the call raised
enrich_school_rankings(analysis_data) ==
    LET r == enrich_offers(analysis_data.offer_analyses, 1) IN
    [rec |-> [analysis_data EXCEPT !.offer_analyses = r.offers], raised |-> r.raised]

\* ------------------------------------------------------------------------
\* calculate_student_tags
\* ------------------------------------------------------------------------
\* A name (of a test, a school, a program) is a sequence of words and blanks;
\* the Chinese names are written in pinyin: tuofu (TOEFL), yasi (IELTS),
\* zongfen (total score), wuzhuanye (no major), zhuanyeweiding (major not
\* decided), xiaoxue, zhongxue, gaozhong (primary, middle, high school).
WordUpper == <<"TOEFL", "IELTS", "GRE", "The", "School", "High", "Academy", "University",
               "General", "Studies", "Lawrenceville", "None", "Institute", "Diploma", "MIT">>
WordLower == <<"toefl", "ielts", "gre", "the", "school", "high", "academy", "university",
               "general", "studies", "lawrenceville", "none", "institute", "diploma", "mit">>
LowerWord(w) == IF \E k \in 1..Len(WordUpper) : WordUpper[k] = w
                THEN WordLower[CHOOSE k \in 1..Len(WordUpper) : WordUpper[k] = w] ELSE w
lower_words(ws) == [i \in 1..Len(ws) |-> LowerWord(ws[i])]

\* str(x) for a field: the text itself, "None" for None, the digits of a number
str_of(x) == IF x.py = "None" THEN <<"None">> ELSE x.s

\* isinstance(x, (int, float, str)); a bool is an int
IsIntFloatStr(x) == x.py \in {"int", "float", "str", "bool"}

\* the value of a run of digits
RECURSIVE digits_value(_)
digits_value(cs) ==
    IF cs = <<>> THEN 0
    ELSE 10 * digits_value(SubSeq(cs, 1, Len(cs) - 1))
         + (CHOOSE d \in 0..9 : Digits[d + 1] = cs[Len(cs)])
AllDigits(cs) == \A i \in 1..Len(cs) : \E d \in 1..10 : Digits[d] = cs[i]

\* float(x), in hundredths and cut off there (the thresholds it is compared
\* with are whole hundredths): blanks around the number are dropped, digits
\* with at most one point are a number, anything else is a ValueError
float_of(x) ==
    IF x = True THEN [ok |-> TRUE, v |-> 100]
    ELSE IF x = False THEN [ok |-> TRUE, v |-> 0]
    ELSE
        LET cs == strip(x.s)
            dots == {i \in 1..Len(cs) : cs[i] = "."}
        IN  IF cs # <<>> /\ dots = {} /\ AllDigits(cs)
            THEN [ok |-> TRUE, v |-> 100 * digits_value(cs)]
            ELSE IF Cardinality(dots) = 1
            THEN LET d == CHOOSE i \in dots : TRUE
                     whole == SubSeq(cs, 1, d - 1)
                     frac == SubSeq(cs, d + 1, Len(cs))
                 IN  IF AllDigits(whole) /\ AllDigits(frac) /\ Len(whole) + Len(frac) > 0
                     THEN [ok |-> TRUE,
                           v |-> 100 * digits_value(whole)
                                 + digits_value(SubSeq(frac \o <<"0", "0">>, 1, 2))]
                     ELSE [ok |-> FALSE, v |-> 0]
            ELSE [ok |-> FALSE, v |-> 0]

\* score_str.split(":")[-1].strip() if ":" in score_str else score_str
after_colon(cs) ==
    LET colons == {i \in 1..Len(cs) : cs[i] = ":"} IN
    IF colons = {} THEN cs
    ELSE strip(SubSeq(cs, (CHOOSE i \in colons : \A j \in colons : j <= i) + 1, Len(cs)))

\* the dicts and lists of a record: what is under a key is missing, None or
\* the container
MissingDict == [py |-> "missing", education |-> [py |-> "missing", gpaValue |-> Missing],
                testScores |-> [py |-> "missing", items |-> <<>>]]
MissingList == [py |-> "missing", items |-> <<>>]
NoneList == [py |-> "None", items |-> <<>>]
List(items) == [py |-> "list", items |-> items]
Education(gpa) == [py |-> "dict", gpaValue |-> gpa]
Resume(edu, tests) == [py |-> "dict", education |-> edu, testScores |-> tests]
Test(name, score) == [testName |-> name, testScore |-> score]
Offer(adms) == [admissions |-> adms]
StudentData(ra, oa) == [resume_analysis |-> ra, offer_analyses |-> oa, tags |-> Missing]

\* admissions.extend(offer.get("admissions", [])) over the offers; raised
\* when an offer holds admissions: null
RECURSIVE collect_admissions(_, _)
collect_admissions(offers, k) ==
    IF k > Len(offers) THEN [adms |-> <<>>, raised |-> FALSE]
    ELSE LET rest == collect_admissions(offers, k + 1) IN
         [adms |-> offers[k].admissions.items \o rest.adms,
          raised |-> offers[k].admissions.py = "None" \/ rest.raised]

\* rule 1 without the amount: only the flag counts
has_scholarship_flag_only(adms, k) == \E i \in k..Len(adms) : adms[i].hasScholarship = True
\* rule 1, the loop of lines 48-52
RECURSIVE has_scholarship(_, _)
has_scholarship(adms, k) ==
    IF k > Len(adms) THEN FALSE
    ELSE IF adms[k].hasScholarship = True \/ Truthy(adms[k].scholarshipAmount) THEN TRUE
    ELSE has_scholarship(adms, k + 1)

\* rule 2.1: the GPA is below 3.2
low_gpa(gpa_value) ==
    /\ Truthy(gpa_value) /\ IsIntFloatStr(gpa_value)
    /\ float_of(gpa_value).ok /\ float_of(gpa_value).v < 320

\* rule 2.2 for one test; the name is lower-cased before the score is looked at
test_name_raises(test) == test.testName.py \notin {"missing", "str"}
low_test(test) ==
    LET test_name == lower_words(Get(test.testName, S(<<>>)).s)
        test_score == test.testScore
        score_val == float_of(S(after_colon(str_of(test_score))))
    IN  /\ Truthy(test_score) /\ IsIntFloatStr(test_score)
        /\ score_val.ok
        /\ IF (Contains(<<"tuofu">>, test_name) \/ Contains(<<"toefl">>, test_name))
              /\ score_val.v < 9000
           THEN TRUE
           ELSE (Contains(<<"yasi">>, test_name) \/ Contains(<<"ielts">>, test_name))
                /\ score_val.v < 650

\* rule 2.3, the loop of lines 96-106
RECURSIVE good_ranking(_, _)
good_ranking(adms, k) ==
    IF k > Len(adms) THEN FALSE
    ELSE LET ranking == adms[k].rankingValue IN
         IF /\ Truthy(ranking) /\ IsIntFloatStr(ranking)
            /\ float_of(ranking).ok /\ float_of(ranking).v < 10000
         THEN TRUE
         ELSE good_ranking(adms, k + 1)

\* k12_keywords, lower-cased
k12_keywords ==
    << <<"k12">>, <<"k12">>, <<"high", " ", "school">>, <<"high", " ", "school">>,
       <<"middle", " ", "school">>, <<"middle", " ", "school">>, <<"xiaoxue">>,
       <<"zhongxue">>, <<"gaozhong">>, <<"elementary">>, <<"secondary">>,
       <<"prep", "aratory">>, <<"prep">>, <<"academy">>, <<"day", " ", "school">>,
       <<"grammar", " ", "school">>, <<"primary">>, <<"junior">> >>

\* the three methods of lines 134-151 for one admission of degreeType OTHER
is_k12(adm) ==
    LET school == lower_words(str_of(Get(adm.school, S(<<>>))))
        program == lower_words(str_of(Get(adm.program, S(<<>>))))
    IN  \/ \E i \in 1..Len(k12_keywords) :
               Contains(k12_keywords[i], school) \/ Contains(k12_keywords[i], program)
        \/ /\ Len(school) >= 2 /\ SubSeq(school, 1, 2) = <<"the", " ">>
           /\ SubSeq(school, Len(school) - 1, Len(school)) = <<" ", "school">>
           /\ ~Contains(<<"university">>, school) /\ ~Contains(<<"college">>, school)
        \/ /\ ~Truthy(adm.rankingValue) \/ ~Truthy(adm.rankingType)
           /\ \/ program = <<"zhuanyeweiding">> \/ program = <<"wuzhuanye">>
              \/ Contains(<<"general">>, program)

\* rule 3 without the test of degreeType
has_k12_school_any_degree(adms, k) == \E i \in k..Len(adms) : is_k12(adms[i])
\* rule 3, the loop of lines 127-156
RECURSIVE has_k12_school(_, _)
has_k12_school(adms, k) ==
    IF k > Len(adms) THEN FALSE
    ELSE IF adms[k].degreeType = S(<<"OTHER">>) /\ is_k12(adms[k]) THEN TRUE
    ELSE has_k12_school(adms, k + 1)

\* the tags joined last to first
join_tags_reversed(tags) ==
    [i \in 1..(2 * Len(tags) - 1) |-> IF i % 2 = 1 THEN tags[Len(tags) - (i \div 2)] ELSE "+"]
\* "+".join(tags)
RECURSIVE join_tags(_)
join_tags(tags) ==
    IF Len(tags) = 1 THEN <<tags[1]>>
    ELSE <<tags[1], "+">> \o join_tags(Tail(tags))

\* a list that starts from the tags the record already holds
initial_tags_from_record(sd) ==
    IF sd.tags.py = "str" THEN SelectSeq(sd.tags.s, LAMBDA t : t # "+") ELSE <<>>
\* tags = []
initial_tags(sd) == <<>>

\* calculate_student_tags(student_data): what it returns (None or the joined
\* tags), or that it raised
calculate_student_tags(sd) ==
    LET resume_data == IF sd.resume_analysis.py = "missing" THEN MissingDict
                       ELSE sd.resume_analysis
        education == resume_data.education
        test_scores == resume_data.testScores
        offers == sd.offer_analyses.items
        col == collect_admissions(offers, 1)
        admissions == col.adms
        low_score == \/ low_gpa(education.gpaValue)
                     \/ \E i \in 1..Len(test_scores.items) : low_test(test_scores.items[i])
        tags == initial_tags(sd)
                \o (IF has_scholarship(admissions, 1) THEN <<"Scholarship">> ELSE <<>>)
                \o (IF low_score /\ good_ranking(admissions, 1)
                    THEN <<"LowScoreComeback">> ELSE <<>>)
                \o (IF has_k12_school(admissions, 1) THEN <<"YoungStudyAbroad">> ELSE <<>>)
    IN  IF \/ resume_data.py = "None" \/ education.py = "None" \/ col.raised
           \/ sd.offer_analyses.py = "None" \/ test_scores.py = "None"
           \/ \E i \in 1..Len(test_scores.items) : test_name_raises(test_scores.items[i])
        THEN [raised |-> TRUE, ret |-> None]
        ELSE [raised |-> FALSE,
              ret |-> IF tags = <<>> THEN None ELSE S(join_tags(tags))]

\* ------------------------------------------------------------------------
\* Records given to calculate_student_tags, and the calls made on them
\* ------------------------------------------------------------------------
MaxTagAdmissions == 2   \* admissions in a record with several rules at work
MaxTagCalls == 2        \* calls on the same record

Gpas ==
    { Missing, None, S(<<>>), S(<<"3", ".", "0">>), S(<<"3", ".", "2">>),
      S(<<"3", ".", "1", "9">>), S(<<"x">>), PyFloat(<<"3", ".", "0">>),
      PyFloat(<<"3", ".", "5">>), PyInt(<<"3">>), PyInt(<<"0">>) }
TestNames ==
    { S(<<"TOEFL">>), S(<<"tuofu">>), S(<<"IELTS">>), S(<<"yasi">>), S(<<"GRE">>),
      S(<<"TOEFL", " ", "iBT">>), Missing, None }
TestScoreValues ==
    { S(<<"8", "5">>), S(<<"9", "0">>), S(<<"zongfen", ":", " ", "8", "5">>),
      S(<<"zongfen", "fwcolon", "8", "5">>), S(<<"6", ".", "0">>), S(<<"6", ".", "5">>),
      S(<<"x">>), PyInt(<<"8", "5">>), PyInt(<<"0">>), PyFloat(<<"6", ".", "0">>),
      Missing, None }
TestLists ==
    {List(<<>>)} \cup {List(<<Test(n, sc)>>) : n \in TestNames, sc \in TestScoreValues}
RankValues ==
    { Missing, None, S(<<>>), S(<<"4", "5">>), S(<<"9", "9">>), S(<<"1", "0", "0">>),
      S(<<"1", "0", "1">>), S(<<"x">>), PyInt(<<"4", "5">>), PyInt(<<"0">>),
      PyFloat(<<"9", "9", ".", "5">>) }

\* an admission none of whose fields is there
BareAdmission ==
    [hasScholarship |-> Missing, scholarshipAmount |-> Missing, rankingValue |-> Missing,
     rankingType |-> Missing, degreeType |-> Missing, school |-> Missing, program |-> Missing]

ScholarshipFlags == {Missing, None, True, False, S(<<"true">>)}
ScholarshipAmounts == {Missing, None, S(<<>>), S(<<"$7,000/year">>)}
ScholarshipAdmissions ==
    { [BareAdmission EXCEPT !.hasScholarship = h, !.scholarshipAmount = a] :
          h \in ScholarshipFlags, a \in ScholarshipAmounts }

RankedAdmissions == { [BareAdmission EXCEPT !.rankingValue = v] : v \in RankValues }

DegreeTypes == {S(<<"OTHER">>), S(<<"MASTER">>), Missing}
SchoolNames ==
    { S(<<"The", " ", "Lawrenceville", " ", "School">>), S(<<"Phillips", " ", "Academy">>),
      S(<<"The", " ", "University", " ", "School">>), S(<<"MIT">>), None, Missing }
Programs ==
    { Missing, S(<<>>), S(<<"General", " ", "Studies">>), S(<<"wuzhuanye">>),
      S(<<"zhuanyeweiding">>), S(<<"High", " ", "School", " ", "Diploma">>), S(<<"CS">>) }
RankingPairs ==
    { <<Missing, Missing>>, <<S(<<"4", "5">>), S(<<"QS">>)>>, <<Missing, S(<<"QS">>)>>,
      <<S(<<"4", "5">>), Missing>> }
SchoolAdmissions ==
    { [BareAdmission EXCEPT !.degreeType = d, !.school = sc, !.program = pr,
                            !.rankingValue = rp[1], !.rankingType = rp[2]] :
          d \in DegreeTypes, sc \in SchoolNames, pr \in Programs, rp \in RankingPairs }

\* admissions that set off the rules one by one and together
MixedAdmissions ==
    { BareAdmission,
      [BareAdmission EXCEPT !.hasScholarship = True],
      [BareAdmission EXCEPT !.rankingValue = S(<<"4", "5">>), !.rankingType = S(<<"QS">>)],
      [BareAdmission EXCEPT !.degreeType = S(<<"OTHER">>),
                            !.school = S(<<"The", " ", "Lawrenceville", " ", "School">>)],
      [BareAdmission EXCEPT !.hasScholarship = True, !.degreeType = S(<<"OTHER">>),
                            !.school = S(<<"Phillips", " ", "Academy">>)],
      [BareAdmission EXCEPT !.scholarshipAmount = S(<<"$7,000/year">>),
                            !.rankingValue = S(<<"9", "9">>)] }
MixedResumes ==
    { MissingDict,
      Resume(Education(PyFloat(<<"3", ".", "0">>)), MissingList),
      Resume(Education(PyFloat(<<"3", ".", "5">>)),
             List(<<Test(S(<<"GRE">>), S(<<"x">>)),
                    Test(S(<<"TOEFL">>), S(<<"zongfen", ":", " ", "8", "5">>))>>)) }

\* the admissions spread over the offers: all in one analysis, one analysis
\* each, or one each behind a slot without admissions (an error value)
TagLayouts == {"one_offer", "offer_each", "error_first"}
Offers(adms, layout) ==
    List(IF layout = "one_offer" THEN <<Offer(List(adms))>>
         ELSE (IF layout = "error_first" THEN <<Offer(MissingList)>> ELSE <<>>)
              \o [i \in 1..Len(adms) |-> Offer(List(<<adms[i]>>))])

\* records with a part that is missing or null
PartialResumes ==
    { MissingDict, [MissingDict EXCEPT !.py = "None"],
      [MissingDict EXCEPT !.py = "dict"],
      [MissingDict EXCEPT !.py = "dict", !.education.py = "None"],
      [MissingDict EXCEPT !.py = "dict", !.testScores = NoneList],
      Resume(Education(Missing), List(<<>>)) }
PartialOffers ==
    { MissingList, NoneList, List(<<>>), List(<<Offer(MissingList)>>),
      List(<<Offer(NoneList)>>),
      List(<<Offer(List(<<BareAdmission>>))>>) }

NoReturn == [raised |-> FALSE, ret |-> None, stored |-> FALSE]

TagsInit ==
    /\ \/ \E g \in Gpas, ts \in TestLists, a \in RankedAdmissions :
              student_data0 = StudentData(Resume(Education(g), ts), Offers(<<a>>, "one_offer"))
       \/ \E a \in ScholarshipAdmissions \cup SchoolAdmissions :
              student_data0 = StudentData(MissingDict, Offers(<<a>>, "one_offer"))
       \/ \E n \in 0..MaxTagAdmissions :
              \E adms \in [1..n -> MixedAdmissions], ra \in MixedResumes, layout \in TagLayouts :
                  student_data0 = StudentData(ra, Offers(adms, layout))
       \/ \E ra \in PartialResumes, oa \in PartialOffers :
              student_data0 = StudentData(ra, oa)
    /\ student_data = student_data0
    /\ tag_calls = 0
    /\ tag_returns = <<>>
    /\ tag_stored = FALSE

\* tags = calculate_student_tags(combined_result)
CalcTags ==
    /\ tag_calls < MaxTagCalls
    /\ \A i \in 1..Len(tag_returns) : ~tag_returns[i].raised
    /\ LET r == calculate_student_tags(student_data) IN
       tag_returns' = Append(tag_returns, [raised |-> r.raised, ret |-> r.ret,
                                           stored |-> tag_stored])
    /\ tag_calls' = tag_calls + 1
    /\ UNCHANGED <<student_data0, student_data, tag_stored>>
    /\ UNCHANGED <<evars, ovars, rvars, svars, xvars, pvars>>

\* combined_result["tags"] = tags
StoreTags ==
    /\ tag_returns # <<>> /\ ~tag_stored
    /\ \A i \in 1..Len(tag_returns) : ~tag_returns[i].raised
    /\ student_data' = [student_data EXCEPT !.tags = tag_returns[Len(tag_returns)].ret]
    /\ tag_stored' = TRUE
    /\ UNCHANGED <<student_data0, tag_calls, tag_returns>>
    /\ UNCHANGED <<evars, ovars, rvars, svars, xvars, pvars>>

TagsNext == CalcTags \/ StoreTags

\* ------------------------------------------------------------------------
\* Records given to enrich_school_rankings, and the calls made on them
\* ------------------------------------------------------------------------
MaxAdmissions == 2     \* admissions in a record
MaxEnrichCalls == 2    \* successive calls on the same record

Schools == { S(<<"M", "I", "T">>), S(<<"m", "i">>), S(<<"T", "o", "m", " ", "x">>),
             S(<<"o", "m", "x">>), S(<<"z">>), Missing, None }

\* rankingType, rankingValue, rankingTier as the LLM may have filled them
RankingFields ==
    { <<S(<<"QS">>), Missing, Missing>>,
      <<S(<<"US News">>), S(<<>>), S(<<>>)>>,
      <<S(<<>>), Missing, Missing>>,
      <<S(<<"QS">>), S(<<"7">>), S(<<"TOP10">>)>>,
      <<S(<<"QS">>), None, S(<<"TOP20">>)>> }

\* schools that meet the table at the ranks where the tier changes
BoundarySchools == { S(<<"O", "x">>), S(<<"M", "i", "o">>), S(<<"X", "i">>), S(<<"T", "i", "m">>) }

Admissions ==
    { [school |-> sc, program |-> S(<<"CS">>), rankingType |-> rf[1], rankingValue |-> rf[2],
       rankingTier |-> rf[3]] : sc \in Schools, rf \in RankingFields }
    \cup { [school |-> sc, program |-> S(<<"CS">>), rankingType |-> S(<<"QS">>),
            rankingValue |-> Missing, rankingTier |-> Missing] : sc \in BoundarySchools }

\* the admissions a longer record is filled up with
CoreAdmissions ==
    { a \in Admissions :
        \/ a.rankingValue = Missing /\ a.rankingType = S(<<"QS">>)
              /\ a.school \in {S(<<"M", "I", "T">>), S(<<"o", "m", "x">>), S(<<"T", "i", "m">>), None}
        \/ a.rankingValue = S(<<"7">>) /\ a.school = S(<<"M", "I", "T">>)
        \/ a.rankingType = S(<<>>) /\ a.school = S(<<"z">>) }

AnalysisOffer(adms) == [kind |-> "analysis", admissions |-> adms]
\* an offer slot without admissions: an error dict or {}
ErrorOffer == [kind |-> "error", admissions |-> <<>>]

Layouts == {"one_offer", "error_first"}
Record(adms, layout) ==
    [resume_analysis |-> "resume",
     offer_analyses |->
        IF layout = "one_offer" THEN <<AnalysisOffer(adms)>>
        ELSE <<ErrorOffer>> \o [i \in 1..Len(adms) |-> AnalysisOffer(<<adms[i]>>)]]


EnrichInit ==
    /\ \E n \in 0..MaxAdmissions : \E adms \in [1..n -> Admissions], layout \in Layouts :
           /\ \A k \in 3..n : adms[k] \in CoreAdmissions
           /\ rec0 = Record(adms, layout)
    /\ rec = rec0
    /\ after1 = rec0
    /\ enr_calls = 0
    /\ enr_raised = FALSE

\* enrich_school_rankings(rec)
Enrich ==
    /\ enr_calls < MaxEnrichCalls
    /\ LET r == enrich_school_rankings(rec) IN
       /\ rec' = r.rec
       /\ enr_raised' = r.raised
       /\ after1' = IF enr_calls = 0 THEN r.rec ELSE after1
    /\ enr_calls' = enr_calls + 1
    /\ UNCHANGED rec0
    /\ UNCHANGED <<evars, ovars, tvars, svars, xvars, pvars>>

EnrichNext == Enrich

\* ------------------------------------------------------------------------
\* Saving the record: save_results, and the same two lines in the callers
\* ------------------------------------------------------------------------
NoFile == [exists |-> FALSE, data |-> <<>>]
File(data) == [exists |-> TRUE, data |-> data]

\* indent=2: the blanks that follow a line feed are doubled
RECURSIVE Indent2(_, _)
Indent2(ts, at_start) ==
    IF ts = <<>> THEN <<>>
    ELSE IF Head(ts) = SP /\ at_start THEN <<SP, SP>> \o Indent2(Tail(ts), TRUE)
    ELSE <<Head(ts)>> \o Indent2(Tail(ts), Head(ts) = NL)

\* json.dump(results, f, ensure_ascii=False, indent=2): the text, written to f
\* piece by piece
dump_chunks(v) == Indent2(dumps(v, "indent", 0), FALSE)

\* the records saved, and what an earlier run left at output_path
SaveDocs == FlatObjects \cup NestedObjects
EarlierFiles == {NoFile, File(dump_chunks(EmptyObj)), File(dump_chunks(Obj({<<"a", Num(2)>>})))}

SaveInit ==
    /\ save_entry \in {"save_results", "dump"}
    /\ save_doc \in SaveDocs
    /\ disk0 \in EarlierFiles
    /\ disk = disk0
    /\ save_pc = "start" /\ save_next = 1 /\ save_buf = <<>> /\ save_ret = "none"

\* how a failing call ends: save_results catches the exception and returns
\* False, the callers that write on their own let it pass
SaveFailed ==
    /\ save_pc' = IF save_entry = "save_results" THEN "done" ELSE "raised"
    /\ save_ret' = IF save_entry = "save_results" THEN "False" ELSE "none"

\* open(output_path, 'w'): the file is created or cut to length 0
SaveOpen ==
    /\ save_pc = "start"
    /\ disk' = File(<<>>)
    /\ save_pc' = "writing"
    /\ UNCHANGED <<save_entry, save_doc, disk0, save_next, save_buf, save_ret>>
    /\ UNCHANGED <<evars, ovars, rvars, tvars, xvars, pvars>>

\* makedirs or open raises (no permission, no such directory)
SaveOpenFails ==
    /\ save_pc = "start"
    /\ SaveFailed
    /\ UNCHANGED <<save_entry, save_doc, disk0, disk, save_next, save_buf>>
    /\ UNCHANGED <<evars, ovars, rvars, tvars, xvars, pvars>>

\* json.dump: f.write(chunk) for the next chunk
SaveWrite ==
    /\ save_pc = "writing" /\ save_next <= Len(dump_chunks(save_doc))
    /\ save_buf' = Append(save_buf, dump_chunks(save_doc)[save_next])
    /\ save_next' = save_next + 1
    /\ UNCHANGED <<save_entry, save_doc, disk0, disk, save_pc, save_ret>>
    /\ UNCHANGED <<evars, ovars, rvars, tvars, xvars, pvars>>

\* the buffer of f is full and goes to the disk
SaveFlush ==
    /\ save_pc = "writing" /\ save_buf # <<>>
    /\ disk' = File(disk.data \o save_buf)
    /\ save_buf' = <<>>
    /\ UNCHANGED <<save_entry, save_doc, disk0, save_pc, save_next, save_ret>>
    /\ UNCHANGED <<evars, ovars, rvars, tvars, xvars, pvars>>

\* f.write raises (OSError, the disk is full): the with statement closes f,
\* which tries to write the buffer, and the exception goes on
SaveWriteFails ==
    /\ save_pc = "writing" /\ save_next <= Len(dump_chunks(save_doc))
    /\ \/ disk' = disk
       \/ disk' = File(disk.data \o save_buf)
    /\ save_buf' = <<>>
    /\ SaveFailed
    /\ UNCHANGED <<save_entry, save_doc, disk0, save_next>>
    /\ UNCHANGED <<evars, ovars, rvars, tvars, xvars, pvars>>

\* the process is stopped while the file is open: the buffer is lost
SaveInterrupted ==
    /\ save_pc = "writing"
    /\ save_pc' = "killed"
    /\ save_buf' = <<>>
    /\ UNCHANGED <<save_entry, save_doc, disk0, disk, save_next, save_ret>>
    /\ UNCHANGED <<evars, ovars, rvars, tvars, xvars, pvars>>

\* the with statement ends: f is closed, the buffer is on disk; return True
SaveClose ==
    /\ save_pc = "writing" /\ save_next > Len(dump_chunks(save_doc))
    /\ disk' = File(disk.data \o save_buf)
    /\ save_buf' = <<>>
    /\ save_pc' = "done"
    /\ save_ret' = IF save_entry = "save_results" THEN "True" ELSE "none"
    /\ UNCHANGED <<save_entry, save_doc, disk0, save_next>>
    /\ UNCHANGED <<evars, ovars, rvars, tvars, xvars, pvars>>

SaveNext ==
    \/ SaveOpen \/ SaveOpenFails \/ SaveWrite \/ SaveFlush \/ SaveWriteFails
    \/ SaveInterrupted \/ SaveClose

\* ------------------------------------------------------------------------
\* process_excel and the Excel parser
\* ------------------------------------------------------------------------
MaxSheets == 2   \* sheets of a workbook
MaxRows == 2     \* data rows of a sheet

\* the texts the parser returns, by their first words
ErrorPrefix == <<"cuowu", ":">>                                   \* "错误:"
FileMissingMsg == ErrorPrefix \o <<" ", "file_missing">>
UnsupportedTypeMsg == ErrorPrefix \o <<" ", "unsupported_type">>
NoSheetMsg == ErrorPrefix \o <<" ", "no_sheet">>
NoDataMsg == ErrorPrefix \o <<" ", "no_data">>
RowOutOfRangeMsg == ErrorPrefix \o <<" ", "row_out_of_range">>
ReadErrorMsg == <<"duqu_Excel_wenjian_shi_chucuo", ":", " ", "e">>      \* "读取Excel文件时出错: ..."
ParseDataErrorMsg == <<"jiexi_Excel_shuju_shi_chucuo", ":", " ", "e">>  \* "解析Excel数据时出错: ..."
ParseRowErrorMsg == <<"jiexi_Excel_hang_shuju_shi_chucuo", ":", " ", "e">>
FormatErrorMsg == <<"geshihua_DataFrame_shi_chucuo", ":", " ", "e">>    \* "格式化DataFrame时出错: ..."
DataText == <<"Excel_shuju_neirong", ":", "LF", "rows">>                \* "Excel数据内容：..."
RowText == <<"Excel_shuju", " ", "-", " ", "row">>                      \* "Excel数据 - 第 n 行:"

\* content.startswith("错误:")
startswith_error(txt) == Len(txt) >= 2 /\ SubSeq(txt, 1, 2) = ErrorPrefix

\* ext.lower() in ['.xls', '.xlsx', '.xlsm', '.csv']
ExtLower(ext) == IF ext = ".XLS" THEN ".xls" ELSE ext
SupportedExt(ext) == ExtLower(ext) \in {".xls", ".xlsx", ".xlsm", ".csv"}

\* the sheet extract_data reads: the first, or the first later one with rows
\* when the first has none
RECURSIVE FirstWithRows(_, _)
FirstWithRows(sheets, k) ==
    IF k > Len(sheets) THEN 0
    ELSE IF sheets[k] > 0 THEN sheets[k] ELSE FirstWithRows(sheets, k + 1)

\* _dataframe_to_text(df): its own except returns the message as the text
dataframe_to_text(f) == IF f.text = "raises" THEN FormatErrorMsg ELSE DataText

\* ExcelParser.extract_data(excel_path)
extract_data(f) ==
    IF ~f.exists THEN FileMissingMsg
    ELSE IF ~SupportedExt(f.ext) THEN UnsupportedTypeMsg
    ELSE IF ExtLower(f.ext) = ".csv"
    THEN (IF f.reads = "raises" THEN ParseDataErrorMsg ELSE dataframe_to_text(f))
    ELSE IF f.reads = "raises" THEN ReadErrorMsg
    ELSE IF f.sheets = <<>> THEN NoSheetMsg
    ELSE LET rows == IF f.sheets[1] = 0 THEN FirstWithRows(f.sheets, 2) ELSE f.sheets[1] IN
         IF rows = 0 \/ f.cols = 0 THEN NoDataMsg
         ELSE dataframe_to_text(f)

\* ExcelParser.extract_row(excel_path, row_index): <<text, total_rows>>
extract_row(f, row_index) ==
    IF ~f.exists THEN <<FileMissingMsg, 0>>
    ELSE IF ~SupportedExt(f.ext) THEN <<UnsupportedTypeMsg, 0>>
    ELSE IF f.reads = "raises" THEN <<ReadErrorMsg, 0>>
    ELSE IF ExtLower(f.ext) # ".csv" /\ f.sheets = <<>> THEN <<NoSheetMsg, 0>>
    ELSE LET total_rows == IF f.sheets = <<>> THEN 0 ELSE f.sheets[1] IN
         IF total_rows = 0 \/ f.cols = 0 THEN <<NoDataMsg, 0>>
         ELSE IF row_index < 0 \/ row_index >= total_rows THEN <<RowOutOfRangeMsg, total_rows>>
         ELSE IF f.text = "raises" THEN <<ParseRowErrorMsg, 0>>
         ELSE <<RowText, total_rows>>

\* the files and the row asked for
Extensions == {".xlsx", ".XLS", ".csv", ".txt"}
SheetRows == UNION {[1..k -> 0..MaxRows] : k \in 0..MaxSheets}
ExcelFiles ==
    [exists : BOOLEAN, ext : Extensions, reads : {"ok", "raises"}, text : {"ok", "raises"},
     cols : {0, 1}, sheets : SheetRows]
\* row_index: None, or a number
NoRow == [py |-> "None", i |-> 0]
Row(i) == [py |-> "int", i |-> i]
RowIndexes == {NoRow} \cup {Row(i) : i \in -1..MaxRows}

NoExcelResult == [success |-> FALSE, error |-> <<>>, content |-> <<>>, has_content |-> FALSE]

ExcelInit ==
    /\ x_file \in ExcelFiles
    /\ x_row \in RowIndexes
    /\ x_pc = "start" /\ x_content = <<>> /\ x_total = 0 /\ x_result = NoExcelResult

\* if not os.path.exists(file_path): return success False
ProcessExcelCheck ==
    /\ x_pc = "start"
    /\ IF ~x_file.exists
       THEN /\ x_result' = [success |-> FALSE, error |-> <<"file_missing", ":", " ", "path">>,
                            content |-> <<>>, has_content |-> FALSE]
            /\ x_pc' = "done"
       ELSE /\ x_pc' = "parse"
            /\ UNCHANGED x_result
    /\ UNCHANGED <<x_file, x_row, x_content, x_total>>
    /\ UNCHANGED <<evars, ovars, rvars, tvars, svars, pvars>>

\* the file is removed between the test of process_excel and the parser
FileRemoved ==
    /\ x_pc = "parse" /\ x_file.exists
    /\ x_file' = [x_file EXCEPT !.exists = FALSE]
    /\ UNCHANGED <<x_row, x_pc, x_content, x_total, x_result>>
    /\ UNCHANGED <<evars, ovars, rvars, tvars, svars, pvars>>

\* content, total_rows = self.excel_parser.extract_row(file_path, row_index)
ExtractRow ==
    /\ x_pc = "parse" /\ x_row # NoRow
    /\ x_content' = extract_row(x_file, x_row.i)[1]
    /\ x_total' = extract_row(x_file, x_row.i)[2]
    /\ x_pc' = "parsed"
    /\ UNCHANGED <<x_file, x_row, x_result>>
    /\ UNCHANGED <<evars, ovars, rvars, tvars, svars, pvars>>

\* content = self.excel_parser.extract_data(file_path)
ExtractData ==
    /\ x_pc = "parse" /\ x_row = NoRow
    /\ x_content' = extract_data(x_file)
    /\ x_pc' = "parsed"
    /\ UNCHANGED <<x_file, x_row, x_total, x_result>>
    /\ UNCHANGED <<evars, ovars, rvars, tvars, svars, pvars>>

\* a content that starts with the error prefix is an error, any other text
\* is the content of a successful result
process_excel_result(txt) ==
    IF startswith_error(txt)
    THEN [success |-> FALSE, error |-> txt, content |-> <<>>, has_content |-> FALSE]
    ELSE [success |-> TRUE, error |-> <<>>, content |-> txt, has_content |-> TRUE]

ProcessExcelReturn ==
    /\ x_pc = "parsed"
    /\ x_result' = process_excel_result(x_content)
    /\ x_pc' = "done"
    /\ UNCHANGED <<x_file, x_row, x_content, x_total>>
    /\ UNCHANGED <<evars, ovars, rvars, tvars, svars, pvars>>

ExcelNext == ProcessExcelCheck \/ FileRemoved \/ ExtractRow \/ ExtractData \/ ProcessExcelReturn

\* ------------------------------------------------------------------------
\* The callers after the results are collected: enrich, tags, save
\* ------------------------------------------------------------------------
Callers == {"test_async_processing", "main_page"}

\* the record as calculate_student_tags reads it
TagAdmission(a) ==
    [BareAdmission EXCEPT !.school = a.school, !.program = a.program,
                          !.rankingValue = a.rankingValue, !.rankingType = a.rankingType]
TagOffer(o) ==
    IF o.kind = "error" THEN Offer(MissingList)
    ELSE Offer(List([i \in 1..Len(o.admissions) |-> TagAdmission(o.admissions[i])]))
student_data_of(r, resume, stored) ==
    [resume_analysis |-> resume,
     offer_analyses |-> List([i \in 1..Len(r.offer_analyses) |-> TagOffer(r.offer_analyses[i])]),
     tags |-> stored]

PipelineResumes ==
    { MissingDict, Resume(Education(PyFloat(<<"3", ".", "0">>)), MissingList),
      [MissingDict EXCEPT !.py = "None"] }

NoTags == [raised |-> FALSE, ret |-> None]
NothingSaved == [written |-> FALSE, rec |-> Record(<<>>, "one_offer"), tags |-> Missing]

PipelineInit ==
    /\ p_caller \in Callers
    /\ p_resume \in PipelineResumes
    /\ \E n \in 0..MaxAdmissions : \E adms \in [1..n -> CoreAdmissions], layout \in Layouts :
           p_rec0 = Record(adms, layout)
    /\ p_rec = p_rec0
    /\ p_tags = NoTags /\ p_stored = Missing
    /\ p_pc = "collected" /\ p_steps = <<>> /\ p_saved = NothingSaved

\* combined_result = enrich_school_rankings(combined_result); main_page only
\* warns when the call raises and goes on with the record as the call left it
PipeEnrich ==
    /\ p_pc = "collected"
    /\ LET r == enrich_school_rankings(p_rec) IN
       /\ p_rec' = r.rec
       /\ p_steps' = Append(p_steps, IF r.raised THEN "enrich_raised" ELSE "enrich")
       /\ p_pc' = IF r.raised /\ p_caller = "test_async_processing" THEN "aborted"
                  ELSE "enriched"
    /\ UNCHANGED <<p_caller, p_resume, p_rec0, p_tags, p_stored, p_saved>>
    /\ UNCHANGED <<evars, ovars, rvars, tvars, svars, xvars>>

\* tags = calculate_student_tags(combined_result)
PipeTags ==
    /\ p_pc = "enriched"
    /\ LET r == calculate_student_tags(student_data_of(p_rec, p_resume, p_stored)) IN
       /\ p_tags' = r
       /\ p_steps' = Append(p_steps, IF r.raised THEN "tags_raised" ELSE "tags")
       /\ p_pc' = IF ~r.raised THEN "tagged"
                  ELSE IF p_caller = "test_async_processing" THEN "aborted" ELSE "stored"
    /\ UNCHANGED <<p_caller, p_resume, p_rec0, p_rec, p_stored, p_saved>>
    /\ UNCHANGED <<evars, ovars, rvars, tvars, svars, xvars>>

\* combined_result["tags"] = tags; in main_page only if tags
PipeStore ==
    /\ p_pc = "tagged"
    /\ p_stored' = IF p_caller = "main_page" /\ ~Truthy(p_tags.ret) THEN p_stored
                   ELSE p_tags.ret
    /\ p_steps' = Append(p_steps, "store")
    /\ p_pc' = "stored"
    /\ UNCHANGED <<p_caller, p_resume, p_rec0, p_rec, p_tags, p_saved>>
    /\ UNCHANGED <<evars, ovars, rvars, tvars, svars, xvars>>

\* json.dump(combined_result, f, ensure_ascii=False, indent=2)
PipeSave ==
    /\ p_pc = "stored"
    /\ p_saved' = [written |-> TRUE, rec |-> p_rec, tags |-> p_stored]
    /\ p_steps' = Append(p_steps, "save")
    /\ p_pc' = "saved"
    /\ UNCHANGED <<p_caller, p_resume, p_rec0, p_rec, p_tags, p_stored>>
    /\ UNCHANGED <<evars, ovars, rvars, tvars, svars, xvars>>

PipelineNext == PipeEnrich \/ PipeTags \/ PipeStore \/ PipeSave

\* ------------------------------------------------------------------------
\* Specifications: one per component, the other components idle
\* ------------------------------------------------------------------------
ExtractIdle ==
    /\ content = PyOther("NoneType") /\ made = NoRecipe /\ entry = "none" /\ epc = "idle"
    /\ extracted = Miss /\ strategy = "none" /\ eresult = NoResult

OrchIdle ==
    /\ caller = "none" /\ resume_file = "absent" /\ offer_texts = <<>> /\ mpc = "idle"
    /\ resume_text = "None" /\ pd_pc = "idle" /\ tasks = <<>> /\ arrival = <<>>
    /\ requests = <<>> /\ combined_result = NoCombined
    /\ results = [has_resume |-> FALSE, resume_analysis |-> NoSlot,
                  has_offers |-> FALSE, offer_analyses |-> <<>>]

EnrichIdle ==
    /\ rec0 = [resume_analysis |-> "resume", offer_analyses |-> <<>>]
    /\ rec = rec0 /\ after1 = rec0
    /\ enr_calls = 0 /\ enr_raised = FALSE

TagsIdle ==
    /\ student_data0 = StudentData(MissingDict, MissingList) /\ student_data = student_data0
    /\ tag_calls = 0 /\ tag_returns = <<>> /\ tag_stored = FALSE

SaveIdle ==
    /\ save_entry = "none" /\ save_doc = EmptyObj /\ disk0 = NoFile /\ disk = NoFile
    /\ save_pc = "idle" /\ save_next = 1 /\ save_buf = <<>> /\ save_ret = "none"

ExcelIdle ==
    /\ x_file = [exists |-> FALSE, ext |-> ".xlsx", reads |-> "ok", text |-> "ok",
                 cols |-> 0, sheets |-> <<>>]
    /\ x_row = NoRow /\ x_pc = "idle" /\ x_content = <<>> /\ x_total = 0
    /\ x_result = NoExcelResult

PipelineIdle ==
    /\ p_caller = "none" /\ p_resume = MissingDict /\ p_rec0 = Record(<<>>, "one_offer")
    /\ p_rec = p_rec0 /\ p_tags = NoTags /\ p_stored = Missing
    /\ p_pc = "idle" /\ p_steps = <<>> /\ p_saved = NothingSaved

InitExtract ==
    ExtractInit /\ OrchIdle /\ EnrichIdle /\ TagsIdle /\ SaveIdle /\ ExcelIdle /\ PipelineIdle
SpecExtract == InitExtract /\ [][ExtractNext]_vars

InitOrch ==
    OrchInit /\ ExtractIdle /\ EnrichIdle /\ TagsIdle /\ SaveIdle /\ ExcelIdle /\ PipelineIdle
SpecOrch == InitOrch /\ [][OrchNext]_vars

InitEnrich ==
    EnrichInit /\ ExtractIdle /\ OrchIdle /\ TagsIdle /\ SaveIdle /\ ExcelIdle /\ PipelineIdle
SpecEnrich == InitEnrich /\ [][EnrichNext]_vars

InitTags ==
    TagsInit /\ ExtractIdle /\ OrchIdle /\ EnrichIdle /\ SaveIdle /\ ExcelIdle /\ PipelineIdle
SpecTags == InitTags /\ [][TagsNext]_vars

InitSave ==
    SaveInit /\ ExtractIdle /\ OrchIdle /\ EnrichIdle /\ TagsIdle /\ ExcelIdle /\ PipelineIdle
SpecSave == InitSave /\ [][SaveNext]_vars

InitExcel ==
    ExcelInit /\ ExtractIdle /\ OrchIdle /\ EnrichIdle /\ TagsIdle /\ SaveIdle /\ PipelineIdle
SpecExcel == InitExcel /\ [][ExcelNext]_vars

InitPipeline ==
    PipelineInit /\ ExtractIdle /\ OrchIdle /\ EnrichIdle /\ TagsIdle /\ SaveIdle /\ ExcelIdle
SpecPipeline == InitPipeline /\ [][PipelineNext]_vars

Init ==
    InitExtract \/ InitOrch \/ InitEnrich \/ InitTags \/ InitSave \/ InitExcel \/ InitPipeline
Next ==
    ExtractNext \/ OrchNext \/ EnrichNext \/ TagsNext \/ SaveNext \/ ExcelNext \/ PipelineNext
Spec == Init /\ [][Next]_vars


\* ------------------------------------------------------------------------
\* Properties of the extraction (SpecExtract)
\* ------------------------------------------------------------------------
\* C1: whatever the raw content (malformed, truncated, wrapped in prose, not a
\* str), _parse_content_to_json / _extract_json_from_text ends with a parsed
\* value, a text or the error value: no exception reaches the caller.
ExtractionNeverRaises ==
    epc = "done" => eresult.kind \in {"value", "text", "error"}

\* a text without "{" and "}" (None included)
BraceFree(c) ==
    \/ c.py = "NoneType"
    \/ c.py = "str" /\ \A i \in 1..Len(c.s) : c.s[i] \notin {LB, RB}

\* C2: for a text that is None, empty or without any brace,
\* _extract_json_from_text returns "{}", fenced blocks in the text or not.
BraceFreeGivesEmptyObject ==
    (epc = "done" /\ entry = "extract" /\ BraceFree(content))
        => eresult = ReturnedText(EmptyJson)

\* C3: round trip. A value V serialised by json.dumps, put in one fenced block
\* (tagged json or untagged) with prose before and after, comes back as V:
\* _parse_content_to_json returns V, and the text _extract_json_from_text
\* returns parses to V.
FencedRoundTrip ==
    (epc = "done" /\ made.kind = "wrapped")
        => /\ extracted.hit
           /\ json_loads(extracted.text).ok
           /\ json_loads(extracted.text).val = made.v
           /\ entry = "parse" => eresult = Returned(made.v)
           /\ entry = "extract" => eresult = ReturnedText(extracted.text)

\* a nested object between prose that holds objects of its own came back
FencedRoundTripSeen ==
    /\ epc = "done" /\ made.kind = "wrapped" /\ entry = "parse"
    /\ made.before = <<LB, RB, NL>> /\ made.after = <<NL, LB, KA, N1, RB>>
    /\ made.v = Nest(2, EmptyObj) /\ made.style = "indent"
    /\ strategy = "fenced"
    /\ eresult = Returned(made.v)

\* the blocks of a multi-block text whose body parses strictly
ParsingBlocks(bs) == {k \in 1..Len(bs) : json_loads(bs[k].body).ok}
LastOf(ks) == CHOOSE k \in ks : \A j \in ks : j <= k

\* C4: in a text of several fenced blocks (tagged json or untagged), the
\* content of the last block that parses strictly is what
\* _extract_json_from_text returns.
LastParsingBlockReturned ==
    (/\ epc = "done" /\ entry = "extract" /\ made.kind = "blocks"
     /\ \A k \in 1..Len(made.blocks) : made.blocks[k].tag \in {"", "json"}
     /\ ParsingBlocks(made.blocks) # {})
        => eresult = ReturnedText(made.blocks[LastOf(ParsingBlocks(made.blocks))].body)


\* C20: _extract_json_from_text tries the fenced blocks, the brace pattern,
\* the slice from the first "{" to the last "}", the lines, in this order, and
\* returns the candidate of the first of them that has one that parses; "{}"
\* when none has.
StrategyOrder ==
    (epc \in {"reloads", "done"} /\ content.py = "str" /\ strategy # "none")
        => LET s == content.s IN
           /\ json_loads(extracted.text).ok
           /\ strategy = "fenced" <=> FencedScan(s).hit
           /\ strategy = "regex" <=> ~FencedScan(s).hit /\ RegexScan(s).hit
           /\ strategy = "slice"
                  <=> ~FencedScan(s).hit /\ ~RegexScan(s).hit /\ BraceSlice(s).hit
           /\ strategy = "lines"
                  <=> /\ ~FencedScan(s).hit /\ ~RegexScan(s).hit
                      /\ ~BraceSlice(s).hit /\ LineScan(s).hit
           /\ strategy = "fenced" => extracted.text = FencedScan(s).text
           /\ strategy = "regex" => extracted.text = RegexScan(s).text
           /\ strategy = "slice" => extracted.text = BraceSlice(s).text
           /\ strategy = "lines" => extracted.text = LineScan(s).text
           /\ strategy = "fallback" => extracted.text = EmptyJson

\* the lines gave the answer after the three strategies before them failed
StrategyOrderSeen ==
    /\ epc = "done" /\ entry = "extract" /\ strategy = "lines"
    /\ ~FencedScan(content.s).hit /\ ~RegexScan(content.s).hit /\ ~BraceSlice(content.s).hit
    /\ eresult = ReturnedText(LineScan(content.s).text)

\* index of the brace that closes the object opened before index i, for
\* objects nested at most max deep; 0 when there is none
RECURSIVE ClosingBrace(_, _, _, _)
ClosingBrace(s, i, d, max) ==
    IF i > Len(s) THEN 0
    ELSE IF s[i] = LB THEN (IF d = max THEN 0 ELSE ClosingBrace(s, i + 1, d + 1, max))
    ELSE IF s[i] = RB THEN (IF d = 1 THEN i ELSE ClosingBrace(s, i + 1, d - 1, max))
    ELSE ClosingBrace(s, i + 1, d, max)

\* the balanced-brace substrings of s from index i on, nested at most max
\* deep, left to right, none inside another
RECURSIVE BalancedObjects(_, _, _)
BalancedObjects(s, i, max) ==
    IF i > Len(s) THEN <<>>
    ELSE IF s[i] = LB /\ ClosingBrace(s, i + 1, 1, max) # 0
         THEN <<Slice(s, i, ClosingBrace(s, i + 1, 1, max))>>
              \o BalancedObjects(s, ClosingBrace(s, i + 1, 1, max) + 1, max)
         ELSE BalancedObjects(s, i + 1, max)

\* the scan was reached, and it returned a longest candidate that parses, or
\* went on to the next strategy when no candidate parses
LongestParsingOf(max) ==
    (content.py = "str" /\ strategy \in {"regex", "slice", "lines", "fallback"})
        => LET cs == BalancedObjects(content.s, 1, max)
               ok == {k \in 1..Len(cs) : json_loads(cs[k]).ok}
           IN  IF ok = {} THEN strategy # "regex"
               ELSE /\ strategy = "regex"
                    /\ \E k \in ok : /\ extracted.text = cs[k]
                                     /\ \A j \in ok : CharLen(cs[j]) <= CharLen(cs[k])

\* C21 as amended: the candidates of the balanced-brace scan are the
\* balanced-brace substrings with at most two levels of nested braces (an
\* object, the objects in it, and the objects in those); the scan returns the
\* longest candidate that parses strictly.
LongestParsingCandidate == LongestParsingOf(RegexDepth)

\* a short object came before a longer one, both parse, the longer was
\* returned
LongestParsingCandidateSeen ==
    /\ epc = "done" /\ strategy = "regex"
    /\ LET cs == BalancedObjects(content.s, 1, RegexDepth) IN
       /\ Len(cs) >= 2
       /\ json_loads(cs[1]).ok /\ json_loads(cs[2]).ok
       /\ CharLen(cs[1]) < CharLen(cs[2])
       /\ extracted.text = cs[2]

\* C21 as stated: the candidates are the balanced-brace substrings with at
\* most one level of nested braces; the scan returns the longest candidate
\* that parses strictly.
LongestParsingCandidateOneLevel == LongestParsingOf(2)

\* C27: every text _extract_json_from_text returns parses strictly; for a
\* content that is a str, _parse_content_to_json never returns the error
\* value, a text nothing can be taken from gives the empty object.
ExtractedTextParses ==
    /\ extracted.hit => json_loads(extracted.text).ok
    /\ (epc = "done" /\ entry = "extract" /\ eresult.kind = "text")
           => eresult = ReturnedText(extracted.text)
    /\ (epc = "done" /\ entry = "parse" /\ content.py = "str")
           => /\ eresult.kind = "value"
              /\ strategy = "fallback" => eresult = Returned(EmptyObj)

\* a text with braces in it that no strategy could use gave the empty object
ExtractedTextParsesSeen ==
    /\ epc = "done" /\ entry = "parse" /\ content.py = "str"
    /\ \E i \in 1..Len(content.s) : content.s[i] = LB
    /\ \E i \in 1..Len(content.s) : content.s[i] = RB
    /\ strategy = "fallback" /\ eresult = Returned(EmptyObj)

\* a text without a fenced block, that is without a fence
NoFence(s) == \A i \in 1..Len(s) : s[i] # FN

\* C28: for a text without fenced block whose part from the first "{" to the
\* last "}" parses strictly, _extract_json_from_text returns that part,
\* however deep the object is nested.
WholeObjectReturned ==
    (/\ epc = "done" /\ entry = "extract" /\ content.py = "str" /\ NoFence(content.s)
     /\ find(content.s, LB, 1) # 0
     /\ rfind(content.s, RB, Len(content.s)) > find(content.s, LB, 1)
     /\ json_loads(Slice(content.s, find(content.s, LB, 1),
                         rfind(content.s, RB, Len(content.s)))).ok)
        => eresult = ReturnedText(Slice(content.s, find(content.s, LB, 1),
                                        rfind(content.s, RB, Len(content.s))))

\* ------------------------------------------------------------------------
\* Properties of process_documents and its callers (SpecOrch)
\* ------------------------------------------------------------------------
\* the slot of the i-th task in the dict process_documents returns
SlotOf(i) ==
    IF i = 1 THEN combined_result.resume_analysis ELSE combined_result.offer_analyses[i - 1]
\* the request of the i-th task failed: no response, no content, or a content
\* that is not a str
CallFailed(i) ==
    tasks[i].outcome.kind \in TransportFailures \/ tasks[i].outcome.content.py # "str"
ProseOnly(i) == tasks[i].outcome.content = PyStr(<<XX, SP, XX>>)

\* C5: offer_analyses has one entry for each offer text, and the i-th entry is
\* what the call for the i-th offer text returned, in whatever order the
\* requests ended.
OfferOrderKept ==
    pd_pc = "returned"
        => /\ Len(combined_result.offer_analyses) = Len(offer_texts)
           /\ \A i \in 1..Len(offer_texts) :
                  /\ combined_result.offer_analyses[i].doc = offer_texts[i]
                  /\ tasks[i + 1].doc = offer_texts[i]
                  /\ combined_result.offer_analyses[i] = tasks[i + 1].result

\* two offers whose requests ended last first, with different results
OfferOrderKeptSeen ==
    /\ pd_pc = "returned" /\ Len(offer_texts) = 2
    /\ arrival = <<3, 2, 1>>
    /\ tasks[2].outcome.kind = "timeout" /\ tasks[3].outcome.kind = "content"
    /\ combined_result.offer_analyses[1].kind = "error"
    /\ combined_result.offer_analyses[2] = ValueSlot("B", Analysis)

\* C6: the resume call and every offer call are handed to the event loop
\* before process_documents awaits, no request ends before that, and
\* process_documents returns only when every call has completed.
FanOutFanIn ==
    /\ pd_pc \in {"awaiting", "returned"}
           => /\ Len(tasks) = 1 + Len(offer_texts)
              /\ \A i \in 1..Len(tasks) : tasks[i].st # "created"
    /\ pd_pc \in {"idle", "build"} => arrival = <<>>
    /\ pd_pc = "returned"
           => /\ \A i \in 1..Len(tasks) : tasks[i].st = "done"
              /\ Len(arrival) = Len(tasks)

\* process_documents returned after three calls that ended out of order
FanOutFanInSeen ==
    /\ pd_pc = "returned" /\ Len(tasks) = 3
    /\ arrival = <<2, 3, 1>>
    /\ Len(requests) >= 3

\* C7 as amended: process_documents returns whatever subset of the calls
\* fails. A call that failed by timeout, connection error, non-200 status,
\* unreadable body, missing content or a content that is not a str has a dict
\* with the key "error" in its own slot; a response without any JSON has the
\* empty object in its slot; an analysis is in its slot unchanged.
FailuresStayInTheirSlot ==
    pd_pc = "returned"
        => \A i \in 1..Len(tasks) :
               /\ SlotOf(i).doc = tasks[i].doc
               /\ CallFailed(i) => SlotOf(i).kind = "error" /\ "error" \in SlotOf(i).keys
               /\ ProseOnly(i) => SlotOf(i) = ValueSlot(tasks[i].doc, EmptyObj)
               /\ tasks[i].outcome.content = PyStr(<<LB, KA, N1, RB>>)
                      => SlotOf(i) = ValueSlot(tasks[i].doc, Analysis)

\* a timeout, a content that is a list and an analysis side by side
FailuresStayInTheirSlotSeen ==
    /\ pd_pc = "returned" /\ Len(tasks) = 3
    /\ tasks[1].outcome.kind = "timeout"
    /\ tasks[2].outcome.content = PyOther("list")
    /\ tasks[3].outcome.content = PyStr(<<LB, KA, N1, RB>>)
    /\ SlotOf(1).kind = "error" /\ SlotOf(2).kind = "error"
    /\ SlotOf(3) = ValueSlot("B", Analysis)

\* C7 as stated: the slot of every failing call, the call with an unparseable
\* response included, holds an error value.
EveryFailureIsAnErrorValue ==
    pd_pc = "returned"
        => \A i \in 1..Len(tasks) :
               (CallFailed(i) \/ ProseOnly(i)) => SlotOf(i).kind = "error"

\* C8: in the record a caller assembles, the slot of an offer whose call or
\* parse failed still holds the failure (a dict with the error message), not
\* an empty analysis.
FailedSlotKeepsItsError ==
    (mpc = "assembled" /\ results.has_offers)
        => \A i \in 1..Len(results.offer_analyses) :
               CallFailed(i + 1)
                   => /\ results.offer_analyses[i].kind = "error"
                      /\ "error" \in results.offer_analyses[i].keys

\* how many requests were sent for the document d
RequestCount(d) == Cardinality({k \in 1..Len(requests) : requests[k] = d})

\* C9: a run sends one request for each offer text, one for the resume when
\* there is a resume text and none when there is not, and no second request
\* for any document.
OneRequestPerDocument ==
    mpc = "assembled"
        => /\ \A k \in 1..Len(offer_texts) : RequestCount(offer_texts[k]) = 1
           /\ RequestCount("resume") = IF resume_file = "ok" THEN 1 ELSE 0
           /\ Len(requests) <= 1 + Len(offer_texts)

\* ------------------------------------------------------------------------
\* Properties of enrich_school_rankings (SpecEnrich)
\* ------------------------------------------------------------------------
\* the admissions of a record, by offer and position
AdmissionIds(r) ==
    {p \in (1..Len(r.offer_analyses)) \X (1..MaxAdmissions) :
         p[2] <= Len(r.offer_analyses[p[1]].admissions)}
AdmissionAt(r, p) == r.offer_analyses[p[1]].admissions[p[2]]

\* C10: a second call of enrich_school_rankings leaves the record as the
\* first call left it, and an admission that had a rankingValue when the
\* function was entered has the same rankingValue afterwards.
EnrichIdempotent ==
    /\ enr_calls >= 2 => rec = after1
    /\ enr_calls >= 1
           => /\ AdmissionIds(rec) = AdmissionIds(rec0)
              /\ \A p \in AdmissionIds(rec0) :
                     Truthy(AdmissionAt(rec0, p).rankingValue)
                         => AdmissionAt(rec, p).rankingValue = AdmissionAt(rec0, p).rankingValue

\* two calls on a record with an admission the first call filled and one that
\* came with a rankingValue and a school of the table
EnrichIdempotentSeen ==
    /\ enr_calls = 2 /\ rec = after1 /\ rec # rec0
    /\ \E p \in AdmissionIds(rec0) :
           /\ ~Truthy(AdmissionAt(rec0, p).rankingValue)
           /\ Truthy(AdmissionAt(rec, p).rankingValue)
    /\ \E p \in AdmissionIds(rec0) :
           /\ AdmissionAt(rec0, p).rankingValue = S(<<"7">>)
           /\ AdmissionAt(rec0, p).school = S(<<"M", "I", "T">>)


\* the number a str of digits stands for, and whether a field is such a str
RECURSIVE int_of(_)
int_of(cs) ==
    IF cs = <<>> THEN 0
    ELSE 10 * int_of(SubSeq(cs, 1, Len(cs) - 1))
         + (CHOOSE d \in 0..9 : Digits[d + 1] = cs[Len(cs)])
IsNumeric(x) ==
    /\ x.py = "str" /\ x.s # <<>>
    /\ \A i \in 1..Len(x.s) : \E d \in 1..10 : Digits[d] = x.s[i]

\* the tier the thresholds give to a rank; "" above 100
TierOfRank(r) ==
    IF r <= 5 THEN "TOP5" ELSE IF r <= 10 THEN "TOP10" ELSE IF r <= 30 THEN "TOP30"
    ELSE IF r <= 50 THEN "TOP50" ELSE IF r <= 100 THEN "TOP100" ELSE ""
\* the tier field x holds the tier name t (no tier for "")
HoldsTier(x, t) == IF t = "" THEN ~Truthy(x) ELSE x = S(<<t>>)

\* C11: after enrich_school_rankings has returned, the rankingTier of every
\* admission is the tier the thresholds give to its rankingValue, and is
\* empty when the rankingValue is empty, not a number or above 100.
TierFollowsValue ==
    (enr_calls >= 1 /\ ~enr_raised)
        => \A p \in AdmissionIds(rec) :
               LET a == AdmissionAt(rec, p) IN
               HoldsTier(a.rankingTier,
                         IF IsNumeric(a.rankingValue)
                         THEN TierOfRank(int_of(a.rankingValue.s)) ELSE "")

\* the rank the table of the admission's rankingType gives to its school
MatchedRank(a) ==
    find_ranking(Get(a.school, S(<<>>)).s,
                 IF a.rankingType = S(<<"QS">>) THEN qs_school_ranking ELSE usnews_school_ranking,
                 1)
\* the admissions the call filled
Filled(p) ==
    ~Truthy(AdmissionAt(rec0, p).rankingValue) /\ Truthy(AdmissionAt(rec, p).rankingValue)

\* C12: an admission matched to the rank r gets str(r) as rankingValue and the
\* tier TOP5 for r <= 5, TOP10 for r <= 10, TOP30 for r <= 30, TOP50 for
\* r <= 50, TOP100 for r <= 100; above 100 the tier is not set (it stays as it
\* was, absent when it was absent).
MatchSetsValueAndTier ==
    enr_calls >= 1
        => \A p \in AdmissionIds(rec0) :
               Filled(p)
                   => LET r == MatchedRank(AdmissionAt(rec0, p)) IN
                      /\ r >= 1
                      /\ AdmissionAt(rec, p).rankingValue = S(str_int(r))
                      /\ IF r <= 100
                         THEN AdmissionAt(rec, p).rankingTier = S(<<TierOfRank(r)>>)
                         ELSE AdmissionAt(rec, p).rankingTier = AdmissionAt(rec0, p).rankingTier

\* one call filled an admission at rank 5 and one at rank 101
MatchSetsValueAndTierSeen ==
    /\ enr_calls = 1
    /\ \E p \in AdmissionIds(rec0) :
           /\ Filled(p) /\ AdmissionAt(rec, p).rankingValue = S(<<"5">>)
           /\ AdmissionAt(rec, p).rankingTier = S(<<"TOP5">>)
    /\ \E p \in AdmissionIds(rec0) :
           /\ Filled(p) /\ AdmissionAt(rec, p).rankingValue = S(<<"1", "0", "1">>)
           /\ ~Truthy(AdmissionAt(rec, p).rankingTier)

\* C13: enrich_school_rankings returns without raising whatever fields of the
\* record are missing or null.
EnrichNeverRaises == ~enr_raised

\* the table an admission is looked up in, and the entries that match its
\* school: one name contains the other, letter case aside
TableOf(a) == IF a.rankingType = S(<<"QS">>) THEN qs_school_ranking ELSE usnews_school_ranking
Matching(a) ==
    LET name == lower(Get(a.school, S(<<>>)).s) IN
    {k \in 1..Len(TableOf(a)) :
         \/ Contains(name, lower(TableOf(a)[k].name))
         \/ Contains(lower(TableOf(a)[k].name), name)}
\* the admissions the function looks up
LookedUp(a) ==
    /\ ~Truthy(a.rankingValue)
    /\ a.rankingType \in {S(<<"QS">>), S(<<"US News">>)}

\* C22: an admission that is looked up gets the rank of the first entry of
\* its table, in the order of the table, whose name contains the school name
\* or is contained in it; it is the smallest rank of all matching entries; an
\* admission no entry matches is left as it was.
FirstMatchWins ==
    (enr_calls >= 1 /\ ~enr_raised)
        => \A p \in AdmissionIds(rec0) :
               LET a == AdmissionAt(rec0, p)
                   M == Matching(a)
               IN  LookedUp(a)
                       => IF M = {} THEN AdmissionAt(rec, p) = a
                          ELSE LET first == CHOOSE k \in M : \A j \in M : k <= j IN
                               /\ AdmissionAt(rec, p).rankingValue = S(str_int(TableOf(a)[first].rank))
                               /\ \A j \in M : TableOf(a)[first].rank <= TableOf(a)[j].rank

\* a school that two entries of the table match got the rank of the first,
\* and a school of no entry was left alone
FirstMatchWinsSeen ==
    /\ enr_calls = 1 /\ ~enr_raised
    /\ \E p \in AdmissionIds(rec0) :
           /\ LookedUp(AdmissionAt(rec0, p)) /\ Cardinality(Matching(AdmissionAt(rec0, p))) = 2
           /\ AdmissionAt(rec0, p).school = S(<<"m", "i">>)
           /\ AdmissionAt(rec, p).rankingValue = S(<<"1">>)
    /\ \E p \in AdmissionIds(rec0) :
           /\ LookedUp(AdmissionAt(rec0, p)) /\ Matching(AdmissionAt(rec0, p)) = {}
           /\ AdmissionAt(rec, p) = AdmissionAt(rec0, p)

\* C23: enrich_school_rankings changes nothing but rankingValue and
\* rankingTier of admissions that come with an empty rankingValue and the
\* rankingType QS or US News: the other admissions, the other fields of every
\* admission, the lists and the rest of the record are as they were.
EnrichFrame ==
    enr_calls >= 1
        => /\ [rec EXCEPT !.offer_analyses = rec0.offer_analyses] = rec0
           /\ Len(rec.offer_analyses) = Len(rec0.offer_analyses)
           /\ \A i \in 1..Len(rec0.offer_analyses) :
                  [rec.offer_analyses[i] EXCEPT !.admissions = rec0.offer_analyses[i].admissions]
                      = rec0.offer_analyses[i]
           /\ AdmissionIds(rec) = AdmissionIds(rec0)
           /\ \A p \in AdmissionIds(rec0) :
                  LET a == AdmissionAt(rec0, p) IN
                  /\ [AdmissionAt(rec, p) EXCEPT !.rankingValue = a.rankingValue,
                                                 !.rankingTier = a.rankingTier] = a
                  /\ ~LookedUp(a) => AdmissionAt(rec, p) = a

\* a school of the table with an empty rankingType stayed as it was beside an
\* admission that was filled
EnrichFrameSeen ==
    /\ enr_calls = 1 /\ rec # rec0
    /\ \E p \in AdmissionIds(rec0) :
           /\ AdmissionAt(rec0, p).school = S(<<"M", "I", "T">>)
           /\ AdmissionAt(rec0, p).rankingType = S(<<>>)
           /\ AdmissionAt(rec0, p).rankingValue = Missing
           /\ AdmissionAt(rec, p) = AdmissionAt(rec0, p)
    /\ \E p \in AdmissionIds(rec0) : Filled(p)

\* C29: an admission without school name, or with an empty one, comes out of
\* enrich_school_rankings with the rankingValue and the rankingTier it had.
NoSchoolNoRanking ==
    enr_calls >= 1
        => \A p \in AdmissionIds(rec0) :
               AdmissionAt(rec0, p).school \in {Missing, S(<<>>)}
                   => /\ AdmissionAt(rec, p).rankingValue = AdmissionAt(rec0, p).rankingValue
                      /\ AdmissionAt(rec, p).rankingTier = AdmissionAt(rec0, p).rankingTier

\* C30: an admission enrich_school_rankings gave a tier to (its rank is at
\* most 100) passes the test of calculate_student_tags for an admission of
\* good ranking.
TierMeansGoodRanking ==
    enr_calls >= 1
        => \A p \in AdmissionIds(rec0) :
               (Filled(p) /\ MatchedRank(AdmissionAt(rec0, p)) <= 100)
                   => good_ranking(<<AdmissionAt(rec, p)>>, 1)

\* ------------------------------------------------------------------------
\* Properties of calculate_student_tags (SpecTags)
\* ------------------------------------------------------------------------
\* the calls made so far have returned
TagsReturned == tag_returns # <<>> /\ \A i \in 1..Len(tag_returns) : ~tag_returns[i].raised
\* the first call returned a text with this tag in it
HasTag(name) ==
    /\ TagsReturned /\ tag_returns[1].ret.py = "str"
    /\ \E i \in 1..Len(tag_returns[1].ret.s) : tag_returns[1].ret.s[i] = name

\* the admissions of a record, whatever offer analysis holds them
AllAdmissions(sd) ==
    UNION { {sd.offer_analyses.items[i].admissions.items[j] :
                 j \in 1..Len(sd.offer_analyses.items[i].admissions.items)} :
            i \in 1..Len(sd.offer_analyses.items) }

\* C18: the returned text holds Scholarship if and only if some admission of
\* some offer analysis has hasScholarship equal to true or a scholarshipAmount
\* that is a non-empty text.
ScholarshipIffOffered ==
    TagsReturned
        => (HasTag("Scholarship")
                <=> \E adm \in AllAdmissions(student_data0) :
                        \/ adm.hasScholarship = True
                        \/ adm.scholarshipAmount.py = "str" /\ adm.scholarshipAmount.s # <<>>)

\* the tag was given for an amount alone, and for a flag in a later analysis
\* behind a slot without admissions
ScholarshipIffOfferedSeen ==
    /\ HasTag("Scholarship")
    /\ \/ \E adm \in AllAdmissions(student_data0) :
              adm.hasScholarship = False /\ adm.scholarshipAmount = S(<<"$7,000/year">>)
       \/ /\ Len(student_data0.offer_analyses.items) = 3
          /\ student_data0.offer_analyses.items[1].admissions.py = "missing"
          /\ student_data0.offer_analyses.items[3].admissions.items[1].hasScholarship = True
          /\ student_data0.offer_analyses.items[2].admissions.items[1] = BareAdmission

\* the rules, each on the admissions as a set
ScholarshipRule(sd) == \E adm \in AllAdmissions(sd) : has_scholarship(<<adm>>, 1)
LowScoreRule(sd) ==
    /\ \/ low_gpa(sd.resume_analysis.education.gpaValue)
       \/ \E i \in 1..Len(sd.resume_analysis.testScores.items) :
              low_test(sd.resume_analysis.testScores.items[i])
    /\ \E adm \in AllAdmissions(sd) : good_ranking(<<adm>>, 1)
YoungRule(sd) == \E adm \in AllAdmissions(sd) : has_k12_school(<<adm>>, 1)

FixedOrder == <<"Scholarship", "LowScoreComeback", "YoungStudyAbroad">>
Triggered(sd) ==
    (IF ScholarshipRule(sd) THEN {"Scholarship"} ELSE {})
    \cup (IF LowScoreRule(sd) THEN {"LowScoreComeback"} ELSE {})
    \cup (IF YoungRule(sd) THEN {"YoungStudyAbroad"} ELSE {})
InFixedOrder(names) ==
    LET e == SelectSeq(FixedOrder, LAMBDA t : t \in names) IN
    IF e = <<>> THEN None
    ELSE S([i \in 1..(2 * Len(e) - 1) |-> IF i % 2 = 1 THEN e[(i + 1) \div 2] ELSE "+"])

\* the record with its offer analyses, and the admissions of each, in the
\* opposite order
Backwards(seq) == [i \in 1..Len(seq) |-> seq[Len(seq) + 1 - i]]
AdmissionsBackwards(sd) ==
    [sd EXCEPT !.offer_analyses.items =
         Backwards([i \in 1..Len(sd.offer_analyses.items) |->
                        [sd.offer_analyses.items[i] EXCEPT
                             !.admissions.items = Backwards(sd.offer_analyses.items[i].admissions.items)]])]

\* C14: calculate_student_tags returns None when no rule is triggered and
\* otherwise the names of the triggered rules, each once, joined by + in the
\* order Scholarship, LowScoreComeback, YoungStudyAbroad; the same record with
\* its admissions in the opposite order gives the same text.
TagsInFixedOrder ==
    TagsReturned
        => /\ tag_returns[1].ret = InFixedOrder(Triggered(student_data0))
           /\ calculate_student_tags(AdmissionsBackwards(student_data0)).ret = tag_returns[1].ret

\* a school of the form The ... School comes first and the scholarship after
\* it: Scholarship+YoungStudyAbroad; and a record that triggers all three
TagsInFixedOrderSeen ==
    /\ TagsReturned
    /\ tag_returns[1].ret = S(<<"Scholarship", "+", "YoungStudyAbroad">>)
    /\ Len(student_data0.offer_analyses.items) = 1
    /\ Len(student_data0.offer_analyses.items[1].admissions.items) = 2
    /\ student_data0.offer_analyses.items[1].admissions.items[1].school
           = S(<<"The", " ", "Lawrenceville", " ", "School">>)
    /\ student_data0.offer_analyses.items[1].admissions.items[2].hasScholarship = True

\* C15: a call leaves the record as it was, every call on the record returns
\* what the first returned, and so does a call made after the result was
\* stored in the tags field of the record.
TagsPure ==
    tag_calls >= 1
        => /\ [student_data EXCEPT !.tags = Missing] = student_data0
           /\ ~tag_stored => student_data = student_data0
           /\ \A i \in 1..Len(tag_returns) : tag_returns[i] = [tag_returns[1] EXCEPT !.stored = tag_returns[i].stored]

\* the three tags were returned, stored in the record, and returned again
TagsPureSeen ==
    /\ Len(tag_returns) = 2 /\ tag_returns[2].stored
    /\ student_data.tags = S(<<"Scholarship", "+", "LowScoreComeback", "+", "YoungStudyAbroad">>)
    /\ tag_returns[2].ret = student_data.tags

\* a value that is a number below t hundredths: an int, a float, or a text
\* that reads as one
NumberBelow(x, t) == IsIntFloatStr(x) /\ float_of(x).ok /\ float_of(x).v < t
\* the same for a score, of which the text after the last colon is read
ScoreBelow(x, t) ==
    /\ IsIntFloatStr(x)
    /\ LET c == float_of(S(after_colon(str_of(x)))) IN c.ok /\ c.v < t
NameHas(test, words) ==
    /\ test.testName.py = "str"
    /\ \E w \in words : Contains(<<w>>, lower_words(test.testName.s))
LowScoreSignal(sd) ==
    \/ NumberBelow(sd.resume_analysis.education.gpaValue, 320)
    \/ \E i \in 1..Len(sd.resume_analysis.testScores.items) :
           LET test == sd.resume_analysis.testScores.items[i] IN
           \/ NameHas(test, {"toefl", "tuofu"}) /\ ScoreBelow(test.testScore, 9000)
           \/ NameHas(test, {"ielts", "yasi"}) /\ ScoreBelow(test.testScore, 650)

\* C16: the returned text holds LowScoreComeback if and only if (a) the GPA
\* read as a number is below 3.2, or a test named toefl has a score below 90,
\* or a test named ielts has a score below 6.5, and (b) some admission has a
\* rankingValue that is a number below 100.
LowScoreIffSignalAndRanking ==
    TagsReturned
        => (HasTag("LowScoreComeback")
                <=> /\ LowScoreSignal(student_data0)
                    /\ \E adm \in AllAdmissions(student_data0) :
                           NumberBelow(adm.rankingValue, 10000))

\* the three methods as the claim words them, for one admission
KeywordInName(adm) ==
    \E i \in 1..Len(k12_keywords) :
        \/ Contains(k12_keywords[i], lower_words(str_of(Get(adm.school, S(<<>>)))))
        \/ Contains(k12_keywords[i], lower_words(str_of(Get(adm.program, S(<<>>)))))
TheWordsSchool(adm) ==
    LET school == lower_words(str_of(Get(adm.school, S(<<>>)))) IN
    /\ Len(school) >= 5
    /\ SubSeq(school, 1, 2) = <<"the", " ">>
    /\ SubSeq(school, Len(school) - 1, Len(school)) = <<" ", "school">>
    /\ ~Contains(<<"university">>, school) /\ ~Contains(<<"college">>, school)
NoRankingNoMajor(adm) ==
    LET program == lower_words(str_of(Get(adm.program, S(<<>>)))) IN
    /\ ~Truthy(adm.rankingValue) /\ ~Truthy(adm.rankingType)
    /\ \/ program = <<>> \/ program = <<"wuzhuanye">> \/ program = <<"zhuanyeweiding">>
       \/ Contains(<<"general">>, program)

\* C17: the returned text holds YoungStudyAbroad if and only if some admission
\* of degreeType OTHER has a K-12 keyword in its school or program name, or a
\* school name of the form the ... school without university or college, or
\* neither rankingValue nor rankingType and a program that is empty, no major,
\* or contains general.
YoungIffOtherAdmission ==
    TagsReturned
        => (HasTag("YoungStudyAbroad")
                <=> \E adm \in AllAdmissions(student_data0) :
                        /\ adm.degreeType = S(<<"OTHER">>)
                        /\ KeywordInName(adm) \/ TheWordsSchool(adm) \/ NoRankingNoMajor(adm))

\* C26: a record none of whose admissions has the degreeType OTHER is never
\* given YoungStudyAbroad, whatever its school names, program names and
\* ranking fields are.
NoOtherNoYoung ==
    (TagsReturned /\ \A adm \in AllAdmissions(student_data0) : adm.degreeType # S(<<"OTHER">>))
        => ~HasTag("YoungStudyAbroad")

\* a MASTER admission to an academy, with a program of general studies and
\* no ranking, was not tagged
NoOtherNoYoungSeen ==
    /\ TagsReturned /\ ~HasTag("YoungStudyAbroad")
    /\ \E adm \in AllAdmissions(student_data0) :
           /\ adm.degreeType = S(<<"MASTER">>)
           /\ adm.school = S(<<"Phillips", " ", "Academy">>)
           /\ adm.program = S(<<"General", " ", "Studies">>)
           /\ adm.rankingValue = Missing /\ adm.rankingType = Missing

\* ------------------------------------------------------------------------
\* Properties of the saved file (SpecSave)
\* ------------------------------------------------------------------------
\* C19: the file is written atomically. What follows from it for the end of
\* a save, however it ended (returned, raised, or the process was stopped):
\* output_path holds what it held before, or the complete text of the record.
SavedWholeOrNotAtAll ==
    save_pc \in {"done", "raised", "killed"}
        => disk = disk0 \/ disk = File(dump_chunks(save_doc))

\* ------------------------------------------------------------------------
\* Properties of process_excel (SpecExcel)
\* ------------------------------------------------------------------------
\* C25: process_excel returns success=True only when the parser extracted
\* data: the content of a successful result is the text of the data or of
\* the row, never a message about an error, and a result that is not
\* successful carries the message and no content.
ExcelSuccessMeansData ==
    x_pc = "done" =>
        /\ x_result.success => x_result.content \in {DataText, RowText}
        /\ ~x_result.success => x_result.error # <<>> /\ ~x_result.has_content

\* ------------------------------------------------------------------------
\* Properties of the callers' last steps (SpecPipeline)
\* ------------------------------------------------------------------------
HasStep(st) == \E i \in 1..Len(p_steps) : p_steps[i] = st
StepRank(st) ==
    IF st \in {"enrich", "enrich_raised"} THEN 1
    ELSE IF st \in {"tags", "tags_raised"} THEN 2
    ELSE IF st = "store" THEN 3 ELSE 4

\* C24: the steps come in the order enrich, tags, store, save, and
\* calculate_student_tags never runs on a record that
\* enrich_school_rankings has not finished: when it has run, the first step
\* was a call of enrich_school_rankings that returned, and the record is the
\* record that call leaves; the record saved is that record.
TagsAfterEnrichFinished ==
    /\ \A i, j \in 1..Len(p_steps) : i < j => StepRank(p_steps[i]) < StepRank(p_steps[j])
    /\ (HasStep("tags") \/ HasStep("tags_raised")) =>
           /\ p_steps[1] = "enrich"
           /\ ~enrich_school_rankings(p_rec0).raised
           /\ p_rec = enrich_school_rankings(p_rec0).rec
    /\ p_saved.written => p_saved.rec = p_rec

=============================================================================
